---- MODULE Spec2Model ----
(***************************************************************************)
(* Model of the voice input path of e-Bridge (src/whisper-service.js):     *)
(*   - correctStuttering, the regex pipeline that cleans a transcript;     *)
(*   - WhisperService.transcribe, the hallucination filter and the         *)
(*     de-duplication of segments;                                         *)
(*   - WhisperService.startRecording / stopRecording / cancelRecording and *)
(*     the microphone button that drives them;                             *)
(* and of the chat request of src/gemini-service.js:                       *)
(*   - GeminiService.makeAPIRequest, the retry on HTTP 503;                *)
(*   - GeminiService.sendChatMessage and clearChatHistory, the window of   *)
(*     the chat history;                                                   *)
(* and of the configuration endpoint src/api/config.js;                    *)
(* and of the Valorant API client (ValorantAPIService, src/unnamed/        *)
(* part_004): its cache, the spacing of its requests and the import into   *)
(* the gallery;                                                            *)
(* and of the account service (AuthService, src/auth-service.js).          *)
(* A string is a sequence of UTF-16 code units (all characters used are in *)
(* the BMP), so the character classes of the regular expressions are the   *)
(* code-point ranges the source writes.                                    *)
(***************************************************************************)
EXTENDS Integers, Sequences, FiniteSets, TLC

VARIABLES
    \* correctStuttering
    text,          \* the argument of correctStuttering
    corrected,     \* the local `corrected`
    npc,           \* 0: not entered, 1..18: next replace step, 19: returned
    \* transcribe
    result,        \* the parsed API response {text, segments}
    tpc,           \* "idle", "call", "fetch", "nospeech", "phrase", "dedup", "text",
                   \* "done" or "threw"
    ret,           \* the value transcribe returned
    retLine,       \* the source line of the return statement taken (0: none)
    \* recording service and the microphone button
    isRecording,   \* WhisperService.isRecording
    mediaRecorder, \* WhisperService.mediaRecorder: 0 (null) or a recorder id
    stream,        \* WhisperService.stream: 0 (null) or a stream id
    audioChunks,   \* the number of chunks in WhisperService.audioChunks
    live,          \* ids of the media streams whose tracks are not stopped
    recState,      \* recorder id -> "recording" | "inactive"; recorder k records
                   \* stream k
    onstop,        \* recorder id -> the click whose stopRecording set onstop, or 0
    stopQ,         \* recorders whose stop event is queued
    calls,         \* click number -> where its onclick handler stands
    uiRecording,   \* the closure variable isRecording of initWhisperVoiceUI
    \* the stop branch of micBtn.onclick
    vpc,           \* "idle", "stopping" (await stopRecording) or "transcribing"
                   \* (await transcribe)
    sessions,      \* the stop clicks handled so far
    blob,          \* audioBlob.size of the current click, NoBlob for null
    normCalls,     \* the calls of correctStuttering made by the current click
    inputValue,    \* the value of the chat input field
    status,        \* the message last given to updateWhisperStatus
    sendTimers,    \* the pending timers of the automatic send
    sends,         \* the clicks the timers made on the send button
    \* GeminiService.makeAPIRequest
    apc,           \* "idle", "fetch" (await fetch), "wait" (await this.delay),
                   \* "returned" or "threw"
    retryCount,    \* the argument retryCount of the running invocation
    requests,      \* the fetches the call has issued
    waits,         \* the waitMs given to this.delay by the call, in order
    statuses,      \* the HTTP statuses the call has received, in order (0: fetch
                   \* rejected)
    apiError,      \* which Error the call threw ("" none)
    apiCalls,      \* the calls of makeAPIRequest made so far
    serverAvailable, \* serverStatus.isAvailable
    \* GeminiService.sendChatMessage and clearChatHistory
    chatHistory,   \* GeminiService.chatHistory: exchanges {user, assistant}
    pending,       \* the messages of the calls that await makeAPIRequest
    chatCalls,     \* the calls of sendChatMessage made so far
    chatUpsets,    \* the calls that threw, the calls of clearChatHistory and the
                   \* calls made while another awaited its answer, together
    exchangeLog,   \* history: the exchanges that succeeded since the last clear
    \* the handler of /api/config, run on one request in two environments
    env1,          \* process.env of the first environment
    env2,          \* process.env of the second environment
    method,        \* req.method ("" before the request)
    res1,          \* the response in the first environment
    res2,          \* the response in the second environment
    \* ValorantAPIService: Riot ID and cache
    riotId,        \* this.riotId (NoRiotId: undefined)
    cache,         \* this.cache: account, mmr, matches, and the keys of lastFetch
                   \* whose time stamp is younger than cacheDuration
    inflight,      \* the calls of getAccountInfo, getMMR and getMatchHistory that
                   \* await makeRequest
    svcCalls,      \* the calls made so far
    lastReturn,    \* history: what the call that ended last was asked and gave
    \* ValorantAPIService.makeRequest
    now,           \* Date.now()
    lastRequestTime, \* rateLimitConfig.lastRequestTime
    reqs,          \* the invocations of makeRequest: where each stands
    issued,        \* history: the times at which fetch was called, in order
    \* the gallery in localStorage and the two imports
    gallery,       \* localStorage valorant_gallery: the match id of each entry
    importResult,  \* what the last import returned: imported and skipped
    \* AuthService
    currentUser,   \* the id of this.currentUser (NoUser: null, GuestUser: 'guest')
    currentProfile, \* the id of this.currentProfile (NoUser: null)
    isGuest,       \* this.isGuest
    guestData,     \* the keys of this.guestData
    userData,      \* the accounts with a user_data_<id>_<key> entry in localStorage
    initialized,   \* this.initialized (this.supabase is set with it)
    session,       \* the account of the Supabase session (NoUser: none)
    sessGuest,     \* sessionStorage isGuest is 'true'
    authOps,       \* the calls of init, login, register and logout that await
                   \* Supabase: the call, what it awaits, the account concerned
    authCalls,     \* the calls made so far
    loginReturned  \* history: the account of the login() that has just returned
                   \* success (NoUser after any other step)

nvars == <<text, corrected, npc>>
tvars == <<result, tpc, ret, retLine>>
rvars == <<isRecording, mediaRecorder, stream, audioChunks, live, recState,
           onstop, stopQ, calls, uiRecording>>
vvars == <<vpc, sessions, blob, normCalls, inputValue, status, sendTimers, sends>>
\* the variables beyond the voice input functions themselves
gvars == <<apc, retryCount, requests, waits, statuses, apiError, apiCalls,
           serverAvailable>>
hvars == <<chatHistory, pending, chatCalls, chatUpsets, exchangeLog>>
cvars == <<env1, env2, method, res1, res2>>
kvars == <<riotId, cache, inflight, svcCalls, lastReturn>>
qvars == <<now, lastRequestTime, reqs, issued>>
ivars == <<gallery, importResult>>
svars == <<kvars, qvars, ivars>>
uvars == <<currentUser, currentProfile, isGuest, guestData, userData, initialized,
           session, sessGuest, authOps, authCalls, loginReturned>>
yvars == <<svars, uvars>>
xvars == <<vvars, gvars, hvars, cvars, yvars>>
vars == <<nvars, tvars, rvars, xvars>>

----------------------------------------------------------------------------
(* Characters                                                              *)

\* Code units of the characters the inputs are built from.
Ch == [ a    |-> 12354,  \* あ
        u    |-> 12358,  \* う
        e    |-> 12360,  \* え
        ka   |-> 12363,  \* か
        ku   |-> 12367,  \* く
        so   |-> 12381,  \* そ
        ta   |-> 12383,  \* た
        da   |-> 12384,  \* だ
        xtu  |-> 12387,  \* っ
        to   |-> 12392,  \* と
        na   |-> 12394,  \* な
        ni   |-> 12395,  \* に
        no   |-> 12398,  \* の
        ha   |-> 12399,  \* は
        bo   |-> 12412,  \* ぼ
        ma   |-> 12414,  \* ま
        n    |-> 12435,  \* ん
        A    |-> 12450,  \* ア
        I    |-> 12452,  \* イ
        bar  |-> 12540,  \* ー
        ten  |-> 12289,  \* 、
        maru |-> 12290,  \* 。
        comma|-> 44,     \* ,
        dot  |-> 46,     \* .
        sp   |-> 32,     \* space
        wsp  |-> 12288,  \* ideographic space
        ell  |-> 8230,   \* …
        kyo  |-> 20170,  \* 今
        hi   |-> 26085,  \* 日
        gaku |-> 23398,  \* 学
        kou  |-> 26657,  \* 校
        iku  |-> 34892 ] \* 行

\* [ぁ-ん]
Hiragana == 12353..12435
\* [ァ-ヶ]
Katakana == 12449..12534
\* [ぁ-んァ-ヶ]
Kana == Hiragana \cup Katakana
\* [一-龯々]
Kanji == (19968..40879) \cup {12293}
\* \s of a JavaScript regular expression
Space == {9, 10, 11, 12, 13, 32, 160, 5760, 8232, 8233, 8239, 8287, 12288, 65279}
         \cup (8192..8202)
\* characters . does not match (line terminators)
LineTerminator == {10, 13, 8232, 8233}
\* [、。,.\s]
SepWide == {Ch.ten, Ch.maru, Ch.comma, Ch.dot} \cup Space
\* [、,\s]
Sep == {Ch.ten, Ch.comma} \cup Space
\* [、,]
SepComma == {Ch.ten, Ch.comma}

----------------------------------------------------------------------------
(* Regular expression matching, as String.prototype.replace performs it:   *)
(* leftmost match, greedy quantifiers with backtracking, and for a /g      *)
(* pattern the scan resumes after each match.                              *)

Max(S) == CHOOSE x \in S : \A y \in S : y <= x

\* s[i..i+n-1], empty when it does not fit
Sub(s, i, n) == IF n > 0 /\ i + n - 1 <= Len(s) THEN SubSeq(s, i, i + n - 1) ELSE <<>>

\* does the literal w occur in s at position i
At(s, i, w) == i + Len(w) - 1 <= Len(s) /\ \A k \in 1..Len(w) : s[i + k - 1] = w[k]

\* the length of the longest run of characters of class S starting at i
Run(s, i, S) ==
    IF i > Len(s) THEN 0
    ELSE Max({n \in 0..(Len(s) - i + 1) : \A k \in 0..(n - 1) : s[i + k] \in S})

\* the number of consecutive copies of w starting at i (w non-empty)
RECURSIVE Copies(_, _, _)
Copies(s, i, w) == IF At(s, i, w) THEN 1 + Copies(s, i + Len(w), w) ELSE 0

NoMatch == [len |-> 0, rep |-> <<>>]

\* the bounds of the quantifiers .{2,8}, .{2,10} and [..]{1,3}
PhraseMin == 2
PhraseMax == 8
SepPhraseMax == 10
KanaSetMax == 3
\* the least run lengths of \1{2,} (after the captured character) and of X{2,}
TripleMin == 3
RunMin == 2

\* (えー|あー|うー|あの|えっと|まあ|その|なんか), in the order of the alternation
Fillers == << <<Ch.e, Ch.bar>>, <<Ch.a, Ch.bar>>, <<Ch.u, Ch.bar>>, <<Ch.a, Ch.no>>,
              <<Ch.e, Ch.xtu, Ch.to>>, <<Ch.ma, Ch.a>>, <<Ch.so, Ch.no>>,
              <<Ch.na, Ch.n, Ch.ka>> >>

\* /(.{2,8})\1{1,}/g -> '$1'
MPhraseRepeat(s, i) ==
    LET gs == {g \in PhraseMin..PhraseMax :
                 /\ i + g - 1 <= Len(s)
                 /\ \A k \in 0..(g - 1) : s[i + k] \notin LineTerminator
                 /\ At(s, i + g, Sub(s, i, g))}
    IN  IF gs = {} THEN NoMatch
        ELSE LET g == Max(gs)
                 w == Sub(s, i, g)
             IN  [len |-> g * (1 + Copies(s, i + g, w)), rep |-> w]

\* /(.{2,10})[、。,.\s]+\1/g -> '$1'
MSeparatedPhraseRepeat(s, i) ==
    LET ms(g) == {m \in 1..Run(s, i + g, SepWide) : At(s, i + g + m, Sub(s, i, g))}
        gs == {g \in PhraseMin..SepPhraseMax :
                 /\ i + g - 1 <= Len(s)
                 /\ \A k \in 0..(g - 1) : s[i + k] \notin LineTerminator
                 /\ ms(g) # {}}
    IN  IF gs = {} THEN NoMatch
        ELSE LET g == Max(gs)
             IN  [len |-> 2 * g + Max(ms(g)), rep |-> Sub(s, i, g)]

\* /([ぁ-ん])\1{2,}/g and /([ァ-ヶ])\1{2,}/g -> '$1'
MTriple(s, i, class) ==
    IF s[i] \in class /\ Run(s, i, {s[i]}) >= TripleMin
    THEN [len |-> Run(s, i, {s[i]}), rep |-> <<s[i]>>]
    ELSE NoMatch

\* /([ぁ-ん])\1([ぁ-ん])/g and /([ァ-ヶ])\1([ァ-ヶ])/g -> '$1$2'
MDouble(s, i, class) ==
    IF /\ i + 2 <= Len(s)
       /\ s[i] \in class
       /\ s[i + 1] = s[i]
       /\ s[i + 2] \in class
    THEN [len |-> 3, rep |-> <<s[i], s[i + 2]>>]
    ELSE NoMatch

\* /([ぁ-んァ-ヶ])[、,\s]+\1[、,\s]*\1*/g -> '$1'
MSeparatedSound(s, i) ==
    LET m  == Run(s, i + 1, Sep)
        j  == i + 1 + m
        m2 == Run(s, j + 1, Sep)
        k  == Run(s, j + 1 + m2, {s[i]})
    IN  IF s[i] \in Kana /\ m >= 1 /\ j <= Len(s) /\ s[j] = s[i]
        THEN [len |-> 2 + m + m2 + k, rep |-> <<s[i]>>]
        ELSE NoMatch

\* /([ぁ-んァ-ヶ]{1,3})[、,\s]+\1[、,\s]*/g -> '$1'
MSeparatedKanaSet(s, i) ==
    LET m(g) == Run(s, i + g, Sep)
        gs == {g \in 1..KanaSetMax :
                 /\ i + g - 1 <= Len(s)
                 /\ \A k \in 0..(g - 1) : s[i + k] \in Kana
                 /\ m(g) >= 1
                 /\ At(s, i + g + m(g), Sub(s, i, g))}
    IN  IF gs = {} THEN NoMatch
        ELSE LET g == Max(gs)
             IN  [len |-> 2 * g + m(g) + Run(s, i + 2 * g + m(g), Sep),
                  rep |-> Sub(s, i, g)]

\* /([ぁ-ん])[、,]+\1*([一-龯々])/g -> the kanji
MWordInitial(s, i) ==
    LET m == Run(s, i + 1, SepComma)
        k == Run(s, i + 1 + m, {s[i]})
        j == i + 1 + m + k
    IN  IF s[i] \in Hiragana /\ m >= 1 /\ j <= Len(s) /\ s[j] \in Kanji
        THEN [len |-> m + k + 2, rep |-> <<s[j]>>]
        ELSE NoMatch

\* /ー{2,}/g -> 'ー', /っ{2,}/g -> 'っ', /…{2,}/g -> '…', /、{2,}/g -> '、',
\* /\s{2,}/g -> ' '
MRun(s, i, class, to) ==
    IF Run(s, i, class) >= RunMin
    THEN [len |-> Run(s, i, class), rep |-> <<to>>]
    ELSE NoMatch

\* /(F)[、,\s]+(F)[、,\s]*/gi -> '$1、', F the alternation of fillers
MFillerRepeat(s, i) ==
    LET after(a) == i + Len(Fillers[a]) + Run(s, i + Len(Fillers[a]), Sep)
        second(a) == {b \in 1..Len(Fillers) : At(s, after(a), Fillers[b])}
        first == {a \in 1..Len(Fillers) :
                    /\ At(s, i, Fillers[a])
                    /\ Run(s, i + Len(Fillers[a]), Sep) >= 1
                    /\ second(a) # {}}
    IN  IF first = {} THEN NoMatch
        ELSE LET a == CHOOSE x \in first : \A y \in first : x <= y
                 b == CHOOSE x \in second(a) : \A y \in second(a) : x <= y
                 e == after(a) + Len(Fillers[b])
             IN  [len |-> e + Run(s, e, Sep) - i, rep |-> Fillers[a] \o <<Ch.ten>>]

\* /^(えー[っと]*|あー|うー|あの[ー]*|えっと|まあ|その|なんか)[、,\s]*/i -> ''
MLeadingFiller(s, i) ==
    LET tail(a) == IF a = 1 THEN Run(s, i + 2, {Ch.xtu, Ch.to})
                   ELSE IF a = 4 THEN Run(s, i + 2, {Ch.bar})
                   ELSE 0
        alts == {a \in 1..Len(Fillers) : At(s, i, Fillers[a])}
    IN  IF i # 1 \/ alts = {} THEN NoMatch
        ELSE LET a == CHOOSE x \in alts : \A y \in alts : x <= y
                 e == i + Len(Fillers[a]) + tail(a)
             IN  [len |-> e + Run(s, e, Sep) - i, rep |-> <<>>]

\* /^[、,\s]+/ -> ''
MLeadingPunct(s, i) ==
    IF i = 1 /\ Run(s, i, Sep) >= 1 THEN [len |-> Run(s, i, Sep), rep |-> <<>>]
    ELSE NoMatch

\* /[、,\s]+$/ -> ''
MTrailingPunct(s, i) ==
    IF Run(s, i, Sep) >= 1 /\ i + Run(s, i, Sep) - 1 = Len(s)
    THEN [len |-> Run(s, i, Sep), rep |-> <<>>]
    ELSE NoMatch

\* the replace steps of correctStuttering, in the order of the source
NRules == 18

\* the match of the pattern of step r at position i of s
MatchAt(r, s, i) ==
    CASE r = 1  -> MPhraseRepeat(s, i)
      [] r = 2  -> MSeparatedPhraseRepeat(s, i)
      [] r = 3  -> MTriple(s, i, Hiragana)
      [] r = 4  -> MTriple(s, i, Katakana)
      [] r = 5  -> MDouble(s, i, Hiragana)
      [] r = 6  -> MDouble(s, i, Katakana)
      [] r = 7  -> MSeparatedSound(s, i)
      [] r = 8  -> MSeparatedKanaSet(s, i)
      [] r = 9  -> MWordInitial(s, i)
      [] r = 10 -> MRun(s, i, {Ch.bar}, Ch.bar)
      [] r = 11 -> MRun(s, i, {Ch.xtu}, Ch.xtu)
      [] r = 12 -> MRun(s, i, {Ch.ell}, Ch.ell)
      [] r = 13 -> MFillerRepeat(s, i)
      [] r = 14 -> MLeadingFiller(s, i)
      [] r = 15 -> MLeadingPunct(s, i)
      [] r = 16 -> MTrailingPunct(s, i)
      [] r = 17 -> MRun(s, i, {Ch.ten}, Ch.ten)
      [] r = 18 -> MRun(s, i, Space, Ch.sp)

\* the steps whose pattern carries the g flag
Global(r) == r \notin {14, 15, 16}

\* String.prototype.replace(pattern, replacement) from position i on
RECURSIVE Scan(_, _, _)
Scan(r, s, i) ==
    IF i > Len(s) THEN <<>>
    ELSE LET m == MatchAt(r, s, i)
         IN  IF m.len > 0
             THEN m.rep \o (IF Global(r) THEN Scan(r, s, i + m.len)
                            ELSE SubSeq(s, i + m.len, Len(s)))
             ELSE <<s[i]>> \o Scan(r, s, i + 1)

Replace(r, s) == Scan(r, s, 1)

\* steps r..NRules applied in order
RECURSIVE Pipeline(_, _)
Pipeline(r, s) == IF r > NRules THEN s ELSE Pipeline(r + 1, Replace(r, s))

\* function correctStuttering(text)
correctStuttering(s) == IF s = <<>> THEN s ELSE Pipeline(1, s)

----------------------------------------------------------------------------
(* correctStuttering as a state machine: one step per replace call          *)

\* the longest bounded input and the characters it is built from
MaxLen == 3
Alphabet == {Ch.a, Ch.e, Ch.bar, Ch.xtu, Ch.to, Ch.ten, Ch.sp, Ch.kyo, Ch.A}

RECURSIVE Strings(_)
Strings(n) == IF n = 0 THEN {<<>>}
              ELSE Strings(n - 1) \cup
                   {Append(w, c) : w \in {x \in Strings(n - 1) : Len(x) = n - 1},
                                   c \in Alphabet}

\* the examples of the documentation
ExFiller == <<Ch.e, Ch.xtu, Ch.to, Ch.ten, Ch.kyo, Ch.hi, Ch.ha, Ch.gaku, Ch.kou,
              Ch.ni, Ch.iku, Ch.xtu, Ch.ta>>
ExFillerOut == <<Ch.kyo, Ch.hi, Ch.ha, Ch.gaku, Ch.kou, Ch.ni, Ch.iku, Ch.xtu, Ch.ta>>
ExLong == <<Ch.a, Ch.bar, Ch.bar, Ch.bar, Ch.so, Ch.u, Ch.na, Ch.n, Ch.da>>
ExLongOut == <<Ch.a, Ch.bar, Ch.so, Ch.u, Ch.na, Ch.n, Ch.da>>
ExStutter == <<Ch.bo, Ch.bo, Ch.bo, Ch.ku, Ch.ha>>
ExStutterOut == <<Ch.bo, Ch.ku, Ch.ha>>
ExPhrase == <<Ch.kyo, Ch.hi, Ch.ha, Ch.kyo, Ch.hi, Ch.ha, Ch.gaku, Ch.kou, Ch.ni,
              Ch.iku, Ch.ku>>
ExPhraseOut == <<Ch.kyo, Ch.hi, Ch.ha, Ch.gaku, Ch.kou, Ch.ni, Ch.iku, Ch.ku>>


\* further cases of the documented rules: a kana repeated 4 times, a phrase
\* repeated 4 times, a filler directly followed by a word
ExStutter4 == <<Ch.bo, Ch.bo, Ch.bo, Ch.bo>>
ExPhrase4 == <<Ch.kyo, Ch.hi, Ch.ha, Ch.kyo, Ch.hi, Ch.ha, Ch.kyo, Ch.hi, Ch.ha,
               Ch.kyo, Ch.hi, Ch.ha>>
ExLongShort == <<Ch.a, Ch.bar, Ch.bar, Ch.kyo, Ch.hi>>

\* a phrase repeated across punctuation: twice, and three times across two
\* different marks
ExSeparated == <<Ch.kyo, Ch.hi, Ch.ha, Ch.ten, Ch.kyo, Ch.hi, Ch.ha>>
ExSeparatedOut == <<Ch.kyo, Ch.hi, Ch.ha>>
ExSeparated3 == <<Ch.kyo, Ch.hi, Ch.ten, Ch.kyo, Ch.hi, Ch.maru, Ch.kyo, Ch.hi>>

\* two commas in a row inside a phrase
ExCommas == <<Ch.kyo, Ch.comma, Ch.comma, Ch.hi>>

\* a particle, a comma, then a word that begins with a kanji
ExParticle == <<Ch.kyo, Ch.hi, Ch.ha, Ch.ten, Ch.gaku, Ch.kou, Ch.ni, Ch.iku, Ch.ku>>

Examples == {ExFiller, ExLong, ExStutter, ExPhrase, ExStutter4, ExPhrase4, ExLongShort,
             ExSeparated, ExSeparated3, ExCommas, ExParticle}

Inputs == Strings(MaxLen) \cup Examples

NormInit ==
    /\ text \in Inputs
    /\ corrected = <<>>
    /\ npc = 0

\* if (!text) return text; let corrected = text;
NormEnter ==
    /\ npc = 0
    /\ corrected' = text
    /\ npc' = IF text = <<>> THEN NRules + 1 ELSE 1
    /\ UNCHANGED <<text, tvars, rvars, xvars>>

\* corrected = corrected.replace(...), the npc-th of the 18
NormStep ==
    /\ npc \in 1..NRules
    /\ corrected' = Replace(npc, corrected)
    /\ npc' = npc + 1
    /\ UNCHANGED <<text, tvars, rvars, xvars>>

NormReturned == npc = NRules + 1

----------------------------------------------------------------------------
(* WhisperService.transcribe: the response of the API is                   *)
(*   result = {text, segments: [{text, no_speech_prob}]}.                  *)
(* A probability is held in hundredths (0.3 is 30), a missing              *)
(* no_speech_prob as NoProb; a missing result.text behaves as '' and is    *)
(* held as <<>>; hasSegments tells a missing segments list from an empty   *)
(* one.                                                                    *)

NoProb == -1

\* if (audioBlob.size < 1000) return ''
MinBlobSize == 1000
\* if (avgNoSpeechProb > 0.5), in hundredths
NoSpeechLimit == 50
\* text.includes(phrase) && avgNoSpeechProb > 0.3, in hundredths
PhraseLimit == 30

\* const hallucinations = [...]
hallucinations == <<
    <<12372, 35222, 32884, 12354, 12426, 12364, 12392, 12358, 12372, 12374, 12356,
      12414, 12375, 12383>>,                                \* ご視聴ありがとうございました
    <<12354, 12426, 12364, 12392, 12358, 12372, 12374, 12356, 12414, 12375,
      12383>>,                                              \* ありがとうございました
    <<12481, 12515, 12531, 12493, 12523, 30331, 37682>>,    \* チャンネル登録
    <<12356, 12356, 12397, 12508, 12479, 12531>>,           \* いいねボタン
    <<23383, 24149>>,                                       \* 字幕
    <<12372, 35239, 12356, 12383, 12384, 12365>>,           \* ご覧いただき
    <<12362, 30130, 12428, 27096, 12391, 12375, 12383>>,    \* お疲れ様でした
    <<12424, 12429, 12375, 12367, 12362, 39000, 12356, 12375, 12414, 12377>> >>
                                                            \* よろしくお願いします

\* String.prototype.includes
Includes(s, w) == \E i \in 1..(Len(s) + 1) : At(s, i, w)

\* String.prototype.trim
RECURSIVE TrimStart(_)
TrimStart(s) == IF s # <<>> /\ Head(s) \in Space THEN TrimStart(Tail(s)) ELSE s
RECURSIVE TrimEnd(_)
TrimEnd(s) == IF s # <<>> /\ s[Len(s)] \in Space THEN TrimEnd(SubSeq(s, 1, Len(s) - 1))
              ELSE s
Trim(s) == TrimEnd(TrimStart(s))

\* Array.prototype.join('')
RECURSIVE Join(_)
Join(ts) == IF ts = <<>> THEN <<>> ELSE Head(ts) \o Join(Tail(ts))

\* segments.reduce((sum, s) => sum + (s.no_speech_prob || 0), 0)
RECURSIVE SumNoSpeech(_)
SumNoSpeech(segs) ==
    IF segs = <<>> THEN 0
    ELSE (IF Head(segs).no_speech_prob = NoProb THEN 0 ELSE Head(segs).no_speech_prob)
         + SumNoSpeech(Tail(segs))

\* a slip of the comparison: the limit itself already counts as above it
AvgAtLeast(segs, limit) == SumNoSpeech(segs) >= limit * Len(segs)

\* avgNoSpeechProb > limit, for a non-empty list: sum / length > limit
AvgAbove(segs, limit) == SumNoSpeech(segs) > limit * Len(segs)

\* result.segments && result.segments.length > 0
HasSegments(r) == r.hasSegments /\ Len(r.segments) > 0

\* some phrase of the list is in the text
HasPhrase(t) == \E p \in 1..Len(hallucinations) : Includes(t, hallucinations[p])

\* for (const phrase of hallucinations) if (text.includes(phrase) && avg > 0.3)
PhraseHit(r) == HasPhrase(r.text) /\ AvgAbove(r.segments, PhraseLimit)

\* result.segments.map(s => s.text.trim()).filter(t => t.length > 0)
RECURSIVE SegmentTexts(_)
SegmentTexts(segs) ==
    IF segs = <<>> THEN <<>>
    ELSE (IF Trim(Head(segs).text) # <<>> THEN <<Trim(Head(segs).text)>> ELSE <<>>)
         \o SegmentTexts(Tail(segs))

\* deduped: segmentTexts[0], then every segmentTexts[i] # segmentTexts[i - 1]
Deduped(ts) ==
    LET keep == {i \in 1..Len(ts) : i = 1 \/ ts[i] # ts[i - 1]}
        RECURSIVE pick(_)
        pick(i) == IF i > Len(ts) THEN <<>>
                   ELSE (IF i \in keep THEN <<ts[i]>> ELSE <<>>) \o pick(i + 1)
    IN  pick(1)

\* segmentTexts.length > 1 && deduped.length < segmentTexts.length
DedupHit(r) ==
    LET ts == SegmentTexts(r.segments)
    IN  Len(ts) > 1 /\ Len(Deduped(ts)) < Len(ts)

----------------------------------------------------------------------------
(* transcribe as a state machine                                           *)

\* the most segments of a response, and what a segment may hold
MaxSegs == 3
TxYoshi == <<12424, 12375>>              \* よし
TxIkuzo == <<34892, 12367, 12382>>       \* 行くぞ
SegTexts == {TxYoshi, TxIkuzo, <<Ch.sp>> \o TxYoshi, <<Ch.sp>>}
Probs == {NoProb, 30, 70}
\* probabilities that put the mean on, below and above both limits
FineProbs == {NoProb, 5, 30, 40, 50, 70}

RECURSIVE SegLists(_, _)
SegLists(n, S) == IF n = 0 THEN {<<>>}
                  ELSE SegLists(n - 1, S) \cup
                       {Append(l, g) : l \in {x \in SegLists(n - 1, S) : Len(x) = n - 1},
                                       g \in S}

\* segment lists that vary the texts, and lists that vary the probabilities
SegmentLists ==
    SegLists(MaxSegs, [text : SegTexts, no_speech_prob : Probs])
    \cup SegLists(MaxSegs, [text : {TxYoshi}, no_speech_prob : FineProbs])

\* the text the engine sends with the segments: their texts put together
RawText(segs) == Join([i \in 1..Len(segs) |-> segs[i].text])

TxThanks == hallucinations[1]            \* ご視聴ありがとうございました
TxAim == <<12456, 12452, 12512, 12364, 24746, 12356>>   \* エイムが悪い

Results ==
    {[text |-> t, hasSegments |-> TRUE, segments |-> l] :
        l \in SegmentLists, t \in {TxThanks, TxAim, <<>>}}
    \cup {[text |-> RawText(l), hasSegments |-> TRUE, segments |-> l] :
            l \in SegmentLists}
    \cup {[text |-> t, hasSegments |-> FALSE, segments |-> <<>>] :
            t \in {TxThanks, TxAim, <<>>}}

BlobSizes == {MinBlobSize - 1, MinBlobSize}

TransInit ==
    /\ result \in Results
    /\ tpc = "call"
    /\ ret = <<>>
    /\ retLine = 0

TransReturn(v, line) ==
    /\ ret' = v
    /\ retLine' = line
    /\ tpc' = "done"
    /\ UNCHANGED <<result, nvars, rvars, xvars>>

TransGoto(pc) ==
    /\ tpc' = pc
    /\ UNCHANGED <<result, ret, retLine, nvars, rvars, xvars>>

\* lines 176-204: the size check, then the request
TransCall ==
    /\ tpc = "call"
    /\ \E size \in BlobSizes :
         IF size < MinBlobSize THEN TransReturn(<<>>, 178) ELSE TransGoto("fetch")

\* lines 206-215: a response that is not ok throws, an ok one is parsed
TransResponse ==
    /\ tpc = "fetch"
    /\ \E ok \in BOOLEAN : IF ok THEN TransGoto("nospeech") ELSE TransGoto("threw")

\* a slip of the nesting: the phrase check outside the test for segments
TransNoSpeechUnguarded ==
    /\ tpc = "nospeech"
    /\ IF HasSegments(result)
       THEN IF AvgAbove(result.segments, NoSpeechLimit)
            THEN TransReturn(<<>>, 227)
            ELSE TransGoto("phrase")
       ELSE IF HasPhrase(result.text) THEN TransReturn(<<>>, 246)
            ELSE TransGoto("text")

\* lines 220-228
TransNoSpeech ==
    /\ tpc = "nospeech"
    /\ IF HasSegments(result)
       THEN IF AvgAbove(result.segments, NoSpeechLimit)
            THEN TransReturn(<<>>, 227)
            ELSE TransGoto("phrase")
       ELSE TransGoto("text")

\* lines 231-248
TransPhrase ==
    /\ tpc = "phrase"
    /\ IF PhraseHit(result) THEN TransReturn(<<>>, 246) ELSE TransGoto("dedup")

\* lines 250-264
TransDedup ==
    /\ tpc = "dedup"
    /\ IF DedupHit(result)
       THEN TransReturn(Join(Deduped(SegmentTexts(result.segments))), 262)
       ELSE TransGoto("text")

\* line 267: return result.text || ''
TransText ==
    /\ tpc = "text"
    /\ TransReturn(result.text, 267)

TransReturned == tpc = "done"
\* the result passed the size check and the request: the filter decided
TransFiltered == tpc = "done" /\ retLine # 178
\* the filter suppressed the result
Suppressed == tpc = "done" /\ retLine \in {227, 246}
----------------------------------------------------------------------------
(* The recording service and the microphone button.  A click runs           *)
(* micBtn.onclick up to its first await that waits for the browser; the     *)
(* code after an await that is already settled runs in the same task, so    *)
(* it belongs to the same step.  The service is taken to be configured      *)
(* (isConfigured() true): a click on an unconfigured service returns at      *)
(* line 425 and changes nothing.                                            *)

\* the clicks of a run, and the chunks counted in audioChunks
MaxClicks == 4
MaxChunks == 1

RecInit ==
    /\ isRecording = FALSE
    /\ mediaRecorder = 0
    /\ stream = 0
    /\ audioChunks = 0
    /\ live = {}
    /\ recState = <<>>
    /\ onstop = <<>>
    /\ stopQ = {}
    /\ calls = <<>>
    /\ uiRecording = FALSE

\* the recorders that are recording
Recording == {r \in 1..Len(recState) : recState[r] = "recording"}

\* micBtn.onclick with isRecording false: await whisperService.startRecording().
\* startRecording returns at once when this.isRecording is set, and the handler
\* goes on to set its own isRecording; otherwise it waits for getUserMedia.
ClickStart ==
    /\ ~uiRecording
    /\ Len(calls) < MaxClicks
    /\ IF isRecording
       THEN /\ calls' = Append(calls, "started")
            /\ uiRecording' = TRUE
       ELSE /\ calls' = Append(calls, "awaitMedia")
            /\ UNCHANGED uiRecording
    /\ UNCHANGED <<isRecording, mediaRecorder, stream, audioChunks, live, recState,
                   onstop, stopQ, nvars, tvars, xvars>>

\* getUserMedia resolves for click h: lines 66-95, then lines 432-435
Grant(h) ==
    /\ h \in 1..Len(calls)
    /\ calls[h] = "awaitMedia"
    /\ stream' = Len(recState) + 1
    /\ live' = live \cup {Len(recState) + 1}
    /\ mediaRecorder' = Len(recState) + 1
    /\ audioChunks' = 0
    /\ recState' = Append(recState, "recording")
    /\ onstop' = Append(onstop, 0)
    /\ isRecording' = TRUE
    /\ uiRecording' = TRUE
    /\ calls' = [calls EXCEPT ![h] = "started"]
    /\ UNCHANGED <<stopQ, nvars, tvars, xvars>>

\* getUserMedia rejects for click h: lines 97-99, then lines 436-441
Deny(h) ==
    /\ h \in 1..Len(calls)
    /\ calls[h] = "awaitMedia"
    /\ calls' = [calls EXCEPT ![h] = "failed"]
    /\ UNCHANGED <<isRecording, mediaRecorder, stream, audioChunks, live, recState,
                   onstop, stopQ, uiRecording, nvars, tvars, xvars>>

\* micBtn.onclick with isRecording true: await whisperService.stopRecording().
\* stopRecording returns null when nothing records; otherwise it sets onstop and
\* calls mediaRecorder.stop(), which on an inactive recorder either throws
\* InvalidStateError or does nothing, depending on the browser.
ClickStop ==
    /\ uiRecording
    /\ Len(calls) < MaxClicks
    /\ IF ~isRecording \/ mediaRecorder = 0
       THEN /\ calls' = Append(calls, "noaudio")
            /\ uiRecording' = FALSE
            /\ UNCHANGED <<onstop, recState, stopQ>>
       ELSE /\ onstop' = [onstop EXCEPT ![mediaRecorder] = Len(calls) + 1]
            /\ IF recState[mediaRecorder] = "recording"
               THEN /\ recState' = [recState EXCEPT ![mediaRecorder] = "inactive"]
                    /\ stopQ' = stopQ \cup {mediaRecorder}
                    /\ calls' = Append(calls, "awaitStop")
               ELSE /\ \E throws \in BOOLEAN :
                         calls' = Append(calls, IF throws THEN "failed" ELSE "awaitStop")
                    /\ UNCHANGED <<recState, stopQ>>
            /\ UNCHANGED uiRecording
    /\ UNCHANGED <<isRecording, mediaRecorder, stream, audioChunks, live, nvars, tvars, xvars>>

\* the stop event of recorder r: the onstop handler of lines 133-148 when one
\* is set, then lines 450 on in the click that awaits it
StopEvent(r) ==
    /\ r \in stopQ
    /\ stopQ' = stopQ \ {r}
    /\ IF onstop[r] # 0
       THEN /\ live' = live \ {stream}
            /\ stream' = 0
            /\ isRecording' = FALSE
            /\ audioChunks' = 0
            /\ IF calls[onstop[r]] = "awaitStop"
               THEN /\ calls' = [calls EXCEPT ![onstop[r]] = "stopped"]
                    /\ uiRecording' = FALSE
               ELSE UNCHANGED <<calls, uiRecording>>
       ELSE UNCHANGED <<live, stream, isRecording, audioChunks, calls, uiRecording>>
    /\ UNCHANGED <<mediaRecorder, recState, onstop, nvars, tvars, xvars>>

\* ondataavailable of recorder r: lines 85-89
DataAvailable(r) ==
    /\ r \in Recording
    /\ audioChunks < MaxChunks
    /\ audioChunks' = audioChunks + 1
    /\ UNCHANGED <<isRecording, mediaRecorder, stream, live, recState, onstop, stopQ,
                   calls, uiRecording, nvars, tvars, xvars>>

\* cancelRecording(): lines 157-169; a throwing stop() ends it at line 159
Cancel ==
    /\ \E throws \in BOOLEAN :
         IF mediaRecorder # 0 /\ isRecording /\ recState[mediaRecorder] = "inactive"
            /\ throws
         THEN UNCHANGED <<recState, stopQ, live, stream, isRecording, audioChunks>>
         ELSE /\ IF mediaRecorder # 0 /\ isRecording
                    /\ recState[mediaRecorder] = "recording"
                 THEN /\ recState' = [recState EXCEPT ![mediaRecorder] = "inactive"]
                      /\ stopQ' = stopQ \cup {mediaRecorder}
                 ELSE UNCHANGED <<recState, stopQ>>
              /\ live' = live \ {stream}
              /\ stream' = 0
              /\ isRecording' = FALSE
              /\ audioChunks' = 0
    /\ UNCHANGED <<mediaRecorder, onstop, calls, uiRecording, nvars, tvars, xvars>>
----------------------------------------------------------------------------
(* The stop branch of micBtn.onclick (lines 442-485): stopRecording, then   *)
(* transcribe, then correctStuttering, the chat input and the automatic     *)
(* send.  What stopRecording resolves with is an input here (the recording  *)
(* service has its own specification); transcribe and correctStuttering     *)
(* are the functions modelled above, and the handler leaves their results   *)
(* in the variables of those functions.                                     *)

\* the stop clicks of a run
MaxSessions == 2
\* stopRecording resolved with null
NoBlob == -1
\* null, an empty blob, a blob below the size check of transcribe, a blob above it
VoiceBlobs == {NoBlob, 0, MinBlobSize - 1, MinBlobSize}

Seg(t, p) == [text |-> t, no_speech_prob |-> p]
Res(t, segs) == [text |-> t, hasSegments |-> TRUE, segments |-> segs]
TxFiller == <<Ch.a, Ch.bar>>             \* あー

\* the responses of the transcription API a click may meet: plain speech, a
\* denylisted phrase over noise, noise, a repeated segment, a lone filler, an
\* elongated sound, no text, no segments
VoiceResults ==
    { Res(TxAim, <<Seg(TxAim, 5)>>),
      Res(TxThanks, <<Seg(TxThanks, 40)>>),
      Res(TxYoshi, <<Seg(TxYoshi, 70)>>),
      Res(TxYoshi \o TxYoshi \o TxIkuzo,
          <<Seg(TxYoshi, 5), Seg(TxYoshi, 5), Seg(TxIkuzo, 5)>>),
      Res(TxFiller, <<Seg(TxFiller, 5)>>),
      Res(ExLong, <<Seg(ExLong, 5)>>),
      Res(<<>>, <<>>),
      [text |-> TxThanks, hasSegments |-> FALSE, segments |-> <<>>] }

\* lines 217-267 of transcribe: what it returns for the parsed response r, and
\* the line of the return statement
transcribeParsed(r) ==
    IF HasSegments(r) /\ AvgAbove(r.segments, NoSpeechLimit)
    THEN [text |-> <<>>, line |-> 227]
    ELSE IF HasSegments(r) /\ PhraseHit(r)
    THEN [text |-> <<>>, line |-> 246]
    ELSE IF HasSegments(r) /\ DedupHit(r)
    THEN [text |-> Join(Deduped(SegmentTexts(r.segments))), line |-> 262]
    ELSE [text |-> r.text, line |-> 267]

VoiceInit ==
    /\ vpc = "idle"
    /\ sessions = 0
    /\ blob = NoBlob
    /\ normCalls = 0
    /\ inputValue = <<>>
    /\ status = ""
    /\ sendTimers = 0
    /\ sends = 0

\* lines 442-449: the click on the recording button, up to await stopRecording()
VoiceClickStop ==
    /\ vpc = "idle"
    /\ sessions < MaxSessions
    /\ sessions' = sessions + 1
    /\ vpc' = "stopping"
    /\ status' = "processing"
    /\ blob' = NoBlob
    /\ normCalls' = 0
    /\ text' = <<>> /\ corrected' = <<>> /\ npc' = 0
    /\ result' = [text |-> <<>>, hasSegments |-> FALSE, segments |-> <<>>]
    /\ tpc' = "idle" /\ ret' = <<>> /\ retLine' = 0
    /\ UNCHANGED <<inputValue, sendTimers, sends, rvars, yvars, gvars, hvars, cvars>>

\* lines 450-453 and 477-479: stopRecording resolved; without audio the click
\* ends, with audio it calls transcribe, which returns '' for a blob below 1000
\* bytes (lines 176-178, then line 475) and otherwise sends the request
VoiceStopped ==
    /\ vpc = "stopping"
    /\ \E size \in VoiceBlobs :
         /\ blob' = size
         /\ IF size <= 0
            THEN /\ status' = "unrecorded"
                 /\ vpc' = "idle"
                 /\ UNCHANGED <<tpc, retLine>>
            ELSE IF size < MinBlobSize
            THEN /\ status' = "unrecognized"
                 /\ vpc' = "idle"
                 /\ tpc' = "done"
                 /\ retLine' = 178
            ELSE /\ vpc' = "transcribing"
                 /\ tpc' = "fetch"
                 /\ UNCHANGED <<status, retLine>>
    /\ UNCHANGED <<sessions, normCalls, inputValue, sendTimers, sends, result, ret,
                   nvars, rvars, yvars, gvars, hvars, cvars>>

\* lines 455-473: const text = correctStuttering(rawText), the status, the
\* input field, the timer of the automatic send
VoiceRecognized(rawText) ==
    /\ text' = rawText
    /\ corrected' = correctStuttering(rawText)
    /\ npc' = NRules + 1
    /\ normCalls' = normCalls + 1
    /\ status' = "recognized"
    /\ inputValue' = correctStuttering(rawText)
    /\ sendTimers' = sendTimers + 1

\* line 475
VoiceUnrecognized ==
    /\ status' = "unrecognized"
    /\ UNCHANGED <<nvars, normCalls, inputValue, sendTimers>>

\* a slip of the guard: the transcript handed on whether it is empty or not
VoiceResponseUnguarded ==
    /\ vpc = "transcribing"
    /\ vpc' = "idle"
    /\ \E ok \in BOOLEAN, r \in VoiceResults :
         IF ok
         THEN /\ result' = r
              /\ tpc' = "done"
              /\ ret' = transcribeParsed(r).text
              /\ retLine' = transcribeParsed(r).line
              /\ VoiceRecognized(transcribeParsed(r).text)
         ELSE /\ tpc' = "threw"
              /\ status' = "error"
              /\ UNCHANGED <<result, ret, retLine, nvars, normCalls, inputValue,
                             sendTimers>>
    /\ UNCHANGED <<sessions, blob, sends, rvars, yvars, gvars, hvars, cvars>>

\* the request of transcribe settles: it throws (lines 204-211, caught at line
\* 480), or the response is parsed and filtered (lines 213-267) and the click
\* goes on at line 454 with what transcribe returned
VoiceResponse ==
    /\ vpc = "transcribing"
    /\ vpc' = "idle"
    /\ \E ok \in BOOLEAN, r \in VoiceResults :
         IF ok
         THEN /\ result' = r
              /\ tpc' = "done"
              /\ ret' = transcribeParsed(r).text
              /\ retLine' = transcribeParsed(r).line
              /\ IF transcribeParsed(r).text # <<>>
                 THEN VoiceRecognized(transcribeParsed(r).text)
                 ELSE VoiceUnrecognized
         ELSE /\ tpc' = "threw"
              /\ status' = "error"
              /\ UNCHANGED <<result, ret, retLine, nvars, normCalls, inputValue,
                             sendTimers>>
    /\ UNCHANGED <<sessions, blob, sends, rvars, yvars, gvars, hvars, cvars>>

\* lines 467-473: the timer set one second before fires: a click on the send
\* button, and the status is cleared
VoiceTimer ==
    /\ sendTimers > 0
    /\ sendTimers' = sendTimers - 1
    /\ sends' = sends + 1
    /\ status' = ""
    /\ UNCHANGED <<vpc, sessions, blob, normCalls, inputValue, nvars, tvars, rvars, yvars,
                   gvars, hvars, cvars>>
----------------------------------------------------------------------------
(* GeminiService.makeAPIRequest (src/gemini-service.js lines 249-350): one  *)
(* fetch per invocation; a 503 below the retry limit waits and invokes      *)
(* makeAPIRequest again with retryCount + 1.  The calls of a run follow     *)
(* one another; serverStatus lasts across them.                             *)

\* the calls of makeAPIRequest in a run
MaxApiCalls == 2

\* this.retryDelay and this.maxRetries
retryDelay == 2000
maxRetries == 5

\* the HTTP statuses of a response; NetworkError stands for a fetch that rejects
NetworkError == 0
Statuses == {200, 401, 403, 404, 429, 500, 503}
\* response.ok
Ok(st) == st \in 200..299

\* what errorData carries: for a 503 the words looked for in error.message, for
\* a 500 whether the error names GEMINI_API_KEY
Details == {"quota", "billing", "region", "overloaded", "key", "none"}

\* Math.pow(2, k)
RECURSIVE Pow2(_)
Pow2(k) == IF k = 0 THEN 1 ELSE 2 * Pow2(k - 1)

\* a slip of the backoff: a delay that grows by retryDelay each time
WaitMsLinear(k) == retryDelay * (k + 1)

\* const waitMs = this.retryDelay * Math.pow(2, retryCount)
WaitMs(k) == retryDelay * Pow2(k)

\* lines 305-319: the Error thrown when the retries are used up
OverloadError(detail) ==
    IF detail \in {"quota", "billing", "region", "overloaded"} THEN detail
    ELSE "unavailable"

\* lines 322-339: the Error thrown for a response that is not ok
HttpError(st, detail) ==
    IF st = 500 /\ detail = "key" THEN "nokey"
    ELSE IF st = 401 \/ st = 403 THEN "auth"
    ELSE IF st = 429 THEN "rate"
    ELSE "http"

ApiInit ==
    /\ apc = "idle"
    /\ retryCount = 0
    /\ requests = 0
    /\ waits = <<>>
    /\ statuses = <<>>
    /\ apiError = ""
    /\ apiCalls = 0
    /\ serverAvailable = TRUE

\* a call makeAPIRequest(messages, generationConfig): lines 249-271, up to the
\* await of fetch
ApiCall ==
    /\ apc \in {"idle", "returned", "threw"}
    /\ apiCalls < MaxApiCalls
    /\ apiCalls' = apiCalls + 1
    /\ retryCount' = 0
    /\ requests' = 1
    /\ waits' = <<>>
    /\ statuses' = <<>>
    /\ apiError' = ""
    /\ apc' = "fetch"
    /\ UNCHANGED <<serverAvailable, nvars, tvars, rvars, yvars, vvars, hvars, cvars>>

\* the fetch settles: lines 261-357
ApiResponse ==
    /\ apc = "fetch"
    /\ \E st \in Statuses \cup {NetworkError}, detail \in Details, parses \in BOOLEAN :
         /\ statuses' = Append(statuses, st)
         /\ IF st = NetworkError
            THEN /\ apc' = "threw"
                 /\ apiError' = "network"
                 /\ UNCHANGED <<waits, serverAvailable>>
            ELSE IF st = 503
            THEN /\ serverAvailable' = FALSE
                 /\ IF retryCount < maxRetries
                    THEN /\ waits' = Append(waits, WaitMs(retryCount))
                         /\ apc' = "wait"
                         /\ UNCHANGED apiError
                    ELSE /\ apc' = "threw"
                         /\ apiError' = OverloadError(detail)
                         /\ UNCHANGED waits
            ELSE IF ~Ok(st)
            THEN /\ apc' = "threw"
                 /\ apiError' = HttpError(st, detail)
                 /\ UNCHANGED <<waits, serverAvailable>>
            ELSE /\ apc' = IF parses THEN "returned" ELSE "threw"
                 /\ apiError' = IF parses THEN "" ELSE "parse"
                 /\ UNCHANGED <<waits, serverAvailable>>
    /\ UNCHANGED <<retryCount, requests, apiCalls, nvars, tvars, rvars, yvars, vvars, hvars,
                   cvars>>

\* the timer of this.delay(waitMs) fires: lines 301-302, makeAPIRequest invoked
\* with retryCount + 1, up to the await of its fetch
ApiDelayDone ==
    /\ apc = "wait"
    /\ retryCount' = retryCount + 1
    /\ requests' = requests + 1
    /\ apc' = "fetch"
    /\ UNCHANGED <<waits, statuses, apiError, apiCalls, serverAvailable, nvars, tvars,
                   rvars, yvars, vvars, hvars, cvars>>
----------------------------------------------------------------------------
(* GeminiService.sendChatMessage and clearChatHistory (src/gemini-service.js *)
(* lines 363-459 and 902-905).  A call runs up to its await of             *)
(* makeAPIRequest and goes on when that settles; what makeAPIRequest        *)
(* delivers is an input here (it has its own specification above).  Calls   *)
(* may overlap: nothing in the service keeps a second message from being    *)
(* sent while the first awaits its answer.                                  *)

\* the calls of a run, and how many times in a run something other than a
\* message answered in turn may happen: a call that fails, a clear, a call made
\* while another awaits its answer
MaxChatCalls == 22
MaxChatUpsets == 2

\* if (this.chatHistory.length > 20) this.chatHistory = this.chatHistory.slice(-20)
HistoryLimit == 20

\* what the await of makeAPIRequest gives: it throws, or data without
\* candidates, or a candidate without content parts, or a part without text, or
\* a part with text
DataKinds == {"threw", "nocandidates", "nocontent", "notext", "text"}

\* the text of the answer to message m
Reply(m) == m + 100

\* a slip of the slice: the first HistoryLimit entries are kept
SliceFirst(h) == IF Len(h) > HistoryLimit THEN SubSeq(h, 1, HistoryLimit) ELSE h

\* lines 438-440: the last HistoryLimit entries are kept
Slice(h) ==
    IF Len(h) > HistoryLimit THEN SubSeq(h, Len(h) - HistoryLimit + 1, Len(h)) ELSE h

ChatInit ==
    /\ chatHistory = <<>>
    /\ pending = {}
    /\ chatCalls = 0
    /\ chatUpsets = 0
    /\ exchangeLog = <<>>

\* sendChatMessage(message): lines 363-407, up to the await of makeAPIRequest;
\* the message of the n-th call is n
SendChatMessage ==
    /\ chatCalls < MaxChatCalls
    /\ pending # {} => chatUpsets < MaxChatUpsets
    /\ chatUpsets' = IF pending # {} THEN chatUpsets + 1 ELSE chatUpsets
    /\ chatCalls' = chatCalls + 1
    /\ pending' = pending \cup {chatCalls + 1}
    /\ UNCHANGED <<chatHistory, exchangeLog, nvars, tvars, rvars, yvars, vvars, gvars, cvars>>

\* makeAPIRequest settles for the call with message m: lines 407-458
ChatSettled(m) ==
    /\ m \in pending
    /\ pending' = pending \ {m}
    /\ \E data \in DataKinds :
         IF data = "text"
         THEN /\ chatHistory' =
                   Slice(Append(chatHistory, [user |-> m, assistant |-> Reply(m)]))
              /\ exchangeLog' = Append(exchangeLog, [user |-> m, assistant |-> Reply(m)])
              /\ UNCHANGED chatUpsets
         ELSE /\ chatUpsets < MaxChatUpsets
              /\ chatUpsets' = chatUpsets + 1
              /\ UNCHANGED <<chatHistory, exchangeLog>>
    /\ UNCHANGED <<chatCalls, nvars, tvars, rvars, yvars, vvars, gvars, cvars>>

\* clearChatHistory(): lines 902-905
ClearChatHistory ==
    /\ chatUpsets < MaxChatUpsets
    /\ chatUpsets' = chatUpsets + 1
    /\ chatHistory' = <<>>
    /\ exchangeLog' = <<>>
    /\ UNCHANGED <<pending, chatCalls, nvars, tvars, rvars, yvars, vvars, gvars, cvars>>
----------------------------------------------------------------------------
(* The handler of /api/config (src/api/config.js).  It keeps no state; to   *)
(* compare what two environments answer to one request, the same request    *)
(* is handled in both and both responses are kept.                          *)

\* a variable of process.env: not defined, or defined with a string value
Unset == [set |-> FALSE, value |-> ""]
EnvValues == {Unset} \cup {[set |-> TRUE, value |-> v] : v \in {"", "key-1", "key-2"}}
Envs == [GEMINI_API_KEY : EnvValues, OPENAI_API_KEY : EnvValues]

Methods == {"GET", "OPTIONS", "POST", "HEAD"}

\* !!process.env.X: false for undefined and for the empty string
Truthy(x) == x.set /\ x.value # ""

\* lines 8-11
CorsHeaders ==
    [credentials |-> "true", origin |-> "*", methods |-> "GET,OPTIONS",
     headers |-> "Content-Type"]

\* the two messages of lines 32-33 ("all API keys are set", "some API keys are
\* not set, check the environment variables")
MsgAllSet == "all-keys-set"
MsgSomeUnset == "some-keys-unset"

\* a slip that puts the key into the message
handlerLeaky(m, env) ==
    [status |-> 200, headers |-> CorsHeaders,
     body |-> [configured |-> Truthy(env.GEMINI_API_KEY) /\ Truthy(env.OPENAI_API_KEY),
               gemini |-> Truthy(env.GEMINI_API_KEY),
               openai |-> Truthy(env.OPENAI_API_KEY),
               message |-> env.GEMINI_API_KEY.value]]

\* handler(req, res): the response to a request of method m in environment env
handler(m, env) ==
    IF m = "OPTIONS"
    THEN [status |-> 200, headers |-> CorsHeaders, body |-> [ended |-> TRUE]]
    ELSE IF m # "GET"
    THEN [status |-> 405, headers |-> CorsHeaders,
          body |-> [error |-> "Method not allowed"]]
    ELSE LET geminiConfigured == Truthy(env.GEMINI_API_KEY)
             openaiConfigured == Truthy(env.OPENAI_API_KEY)
         IN  [status |-> 200, headers |-> CorsHeaders,
              body |-> [configured |-> geminiConfigured /\ openaiConfigured,
                        gemini |-> geminiConfigured,
                        openai |-> openaiConfigured,
                        message |-> IF geminiConfigured /\ openaiConfigured
                                    THEN MsgAllSet ELSE MsgSomeUnset]]

NoResponse == [status |-> 0, headers |-> CorsHeaders, body |-> [ended |-> FALSE]]

ConfigInit ==
    /\ env1 \in Envs
    /\ env2 \in Envs
    /\ method = ""
    /\ res1 = NoResponse
    /\ res2 = NoResponse

\* one request, handled in both environments
ConfigRequest ==
    /\ method = ""
    /\ \E m \in Methods :
         /\ method' = m
         /\ res1' = handler(m, env1)
         /\ res2' = handler(m, env2)
    /\ UNCHANGED <<env1, env2, nvars, tvars, rvars, yvars, vvars, gvars, hvars>>
----------------------------------------------------------------------------
(* ValorantAPIService (src/unnamed/part_004): the Riot ID and the cache.    *)
(* getAccountInfo, getMMR and getMatchHistory each run to their await of    *)
(* makeRequest in one step and continue when makeRequest answers; the       *)
(* timing inside makeRequest is modelled separately below.  The server is   *)
(* taken to answer the endpoint it was asked: the data of a response is     *)
(* named by the endpoint of its request.                                    *)

MaxSvcCalls == 3

\* a Riot ID after setRiotId trimmed it; NoRiotId is the undefined this.riotId
RiotIds == {"player-1", "player-2"}
NoRiotId == ""

Modes == {"competitive", "unrated"}
Sizes == {10, 20}

\* the endpoint a call builds: the function, its arguments and the Riot ID
NoEndpoint == [fn |-> "", mode |-> "", size |-> 0, id |-> NoRiotId]
Endpoint(fn, mode, size, id) == [fn |-> fn, mode |-> mode, size |-> size, id |-> id]

\* response.data: null, undefined or [] (Null), or the data of an endpoint
Null == [for |-> NoEndpoint]
Data(e) == [for |-> e]

\* line 394: the key of lastFetch; 'account' and 'mmr' for the other two
CacheKey(e) == [fn |-> e.fn, mode |-> e.mode, size |-> e.size]

\* clearCache
EmptyCache == [account |-> Null, mmr |-> Null, matches |-> Null, lastFetch |-> {}]

\* isCacheValid: a time stamp is there and is younger than cacheDuration
isCacheValid(key) == key \in cache.lastFetch

\* the field of this.cache a function reads and writes
CacheField(fn) ==
    IF fn = "account" THEN cache.account
    ELSE IF fn = "mmr" THEN cache.mmr ELSE cache.matches

\* the test before the request, lines 351, 373, 397
CacheHit(e) == isCacheValid(CacheKey(e)) /\ CacheField(e.fn) # Null

NoReturn == [asked |-> NoEndpoint, got |-> Null, cached |-> FALSE, threw |-> FALSE]

ValorantInit ==
    /\ riotId \in {NoRiotId} \cup RiotIds
    /\ cache = EmptyCache
    /\ inflight = {}
    /\ svcCalls = 0
    /\ lastReturn = NoReturn

\* the part of a call up to its first await or return
CallStart(fn, mode, size) ==
    /\ svcCalls < MaxSvcCalls
    /\ svcCalls' = svcCalls + 1
    /\ LET e == Endpoint(fn, mode, size, riotId)
       IN  IF riotId = NoRiotId
           THEN /\ lastReturn' = [asked |-> e, got |-> Null, cached |-> FALSE,
                                  threw |-> TRUE]
                /\ UNCHANGED inflight
           ELSE IF CacheHit(e)
           THEN /\ lastReturn' = [asked |-> e, got |-> CacheField(fn),
                                  cached |-> TRUE, threw |-> FALSE]
                /\ UNCHANGED inflight
           ELSE /\ inflight' = inflight \cup {[e |-> e, n |-> svcCalls + 1]}
                /\ UNCHANGED lastReturn
    /\ UNCHANGED <<riotId, cache>>

getAccountInfo ==
    /\ CallStart("account", "", 0)
    /\ UNCHANGED <<qvars, ivars, nvars, tvars, rvars, vvars, gvars, hvars, cvars, uvars>>

getMMR ==
    /\ CallStart("mmr", "", 0)
    /\ UNCHANGED <<qvars, ivars, nvars, tvars, rvars, vvars, gvars, hvars, cvars, uvars>>

getMatchHistory ==
    /\ \E mode \in Modes, size \in Sizes : CallStart("matches", mode, size)
    /\ UNCHANGED <<qvars, ivars, nvars, tvars, rvars, vvars, gvars, hvars, cvars, uvars>>

\* makeRequest answers a call: it throws, or it returns a body whose data is
\* empty or the data of the endpoint; the call stores and returns the data
SvcResponse ==
    /\ \E c \in inflight :
         /\ inflight' = inflight \ {c}
         /\ \/ /\ lastReturn' = [asked |-> c.e, got |-> Null, cached |-> FALSE,
                                 threw |-> TRUE]
               /\ UNCHANGED cache
            \/ \E d \in {Null, Data(c.e)} :
                 /\ cache' =
                      [cache EXCEPT
                         !.account = IF c.e.fn = "account" THEN d ELSE @,
                         !.mmr = IF c.e.fn = "mmr" THEN d ELSE @,
                         !.matches = IF c.e.fn = "matches" THEN d ELSE @,
                         !.lastFetch = @ \cup {CacheKey(c.e)}]
                 /\ lastReturn' = [asked |-> c.e, got |-> d, cached |-> FALSE,
                                   threw |-> FALSE]
    /\ UNCHANGED <<riotId, svcCalls>>
    /\ UNCHANGED <<qvars, ivars, nvars, tvars, rvars, vvars, gvars, hvars, cvars, uvars>>

\* setRiotId with a name and a tag that are not empty
setRiotId ==
    /\ \E id \in RiotIds : riotId' = id
    /\ cache' = EmptyCache
    /\ UNCHANGED <<inflight, svcCalls, lastReturn>>
    /\ UNCHANGED <<qvars, ivars, nvars, tvars, rvars, vvars, gvars, hvars, cvars, uvars>>

\* cacheDuration passes since a time stamp of lastFetch was written
CacheExpire ==
    /\ \E k \in cache.lastFetch : cache' = [cache EXCEPT !.lastFetch = @ \ {k}]
    /\ UNCHANGED <<riotId, inflight, svcCalls, lastReturn>>
    /\ UNCHANGED <<qvars, ivars, nvars, tvars, rvars, vvars, gvars, hvars, cvars, uvars>>
----------------------------------------------------------------------------
(* ValorantAPIService.makeRequest: the spacing of the requests.  Time is    *)
(* Date.now() in milliseconds; the clock moves in steps of half the         *)
(* interval.  An invocation runs from its entry to its first await in one   *)
(* step: to the await of delay when the last request is too recent, to the  *)
(* await of fetch otherwise.                                                *)

MaxRequests == 3
MaxTicks == 4

minRequestInterval == 2000

ClockStep == minRequestInterval \div 2

\* Date.now() when the service is constructed: far more than the interval after
\* the initial lastRequestTime of 0
StartTime == minRequestInterval

\* lines 275-281 and 288: the invocation entered at the time now, appended to rq
Entered(rq) ==
    LET timeSinceLastRequest == now - lastRequestTime
    IN  IF timeSinceLastRequest < minRequestInterval
        THEN Append(rq, [pos |-> "delay",
                         wake |-> now + (minRequestInterval - timeSinceLastRequest)])
        ELSE Append(rq, [pos |-> "fetch", wake |-> 0])

\* the times of the fetches after the invocations of rq beyond the first n have
\* been entered at the time now
Issued(rq, n) ==
    LET Fetching == {r \in (n + 1)..Len(rq) : rq[r].pos = "fetch"}
    IN  issued \o [k \in 1..Cardinality(Fetching) |-> now]

RateInit ==
    /\ now = StartTime
    /\ lastRequestTime = 0
    /\ reqs = <<>>
    /\ issued = <<>>

\* one call of makeRequest with the API key set
makeRequest ==
    /\ Len(reqs) < MaxRequests
    /\ reqs' = Entered(reqs)
    /\ issued' = Issued(reqs', Len(reqs))
    /\ UNCHANGED <<now, lastRequestTime>>
    /\ UNCHANGED <<kvars, ivars, nvars, tvars, rvars, vvars, gvars, hvars, cvars, uvars>>

\* getPlayerStats with nothing cached: Promise.all is given getAccountInfo(),
\* getMMR() and getMatchHistory('competitive', 20), each of which runs to the
\* first await of its makeRequest before the next is called
getPlayerStats ==
    /\ Len(reqs) + 3 <= MaxRequests
    /\ reqs' = Entered(Entered(Entered(reqs)))
    /\ issued' = Issued(reqs', Len(reqs))
    /\ UNCHANGED <<now, lastRequestTime>>
    /\ UNCHANGED <<kvars, ivars, nvars, tvars, rvars, vvars, gvars, hvars, cvars, uvars>>

\* the timer of delay fires, at its time or later, and fetch is called
DelayDone ==
    /\ \E r \in DOMAIN reqs :
         /\ reqs[r].pos = "delay"
         /\ now >= reqs[r].wake
         /\ reqs' = [reqs EXCEPT ![r].pos = "fetch"]
    /\ issued' = Append(issued, now)
    /\ UNCHANGED <<now, lastRequestTime>>
    /\ UNCHANGED <<kvars, ivars, nvars, tvars, rvars, vvars, gvars, hvars, cvars, uvars>>

\* fetch settles: with a response of any status (line 297 runs), or rejected
FetchSettled ==
    /\ \E r \in DOMAIN reqs :
         /\ reqs[r].pos = "fetch"
         /\ reqs' = [reqs EXCEPT ![r].pos = "done"]
    /\ \/ lastRequestTime' = now
       \/ UNCHANGED lastRequestTime
    /\ UNCHANGED <<now, issued>>
    /\ UNCHANGED <<kvars, ivars, nvars, tvars, rvars, vvars, gvars, hvars, cvars, uvars>>

\* time passes
ClockTick ==
    /\ now < StartTime + MaxTicks * ClockStep
    /\ now' = now + ClockStep
    /\ UNCHANGED <<lastRequestTime, reqs, issued>>
    /\ UNCHANGED <<kvars, ivars, nvars, tvars, rvars, vvars, gvars, hvars, cvars, uvars>>
----------------------------------------------------------------------------
(* ValorantAPIService.importMatchHistory and importFromStaticData.  Both    *)
(* read the gallery, filter the matches and write the gallery without an    *)
(* await in between, so each import is one step on the list of matches it   *)
(* was given.  An entry of the gallery is named by its match id             *)
(* (m.matchId || m.id).                                                     *)

MaxMatchId == 3
MaxList == 2

MatchIds == 1..MaxMatchId

\* the lists of at most MaxList elements of S
Lists(S) == UNION {[1..n -> S] : n \in 0..MaxList}

\* a match of the API: its metadata.matchid and whether all_players holds the
\* player of the account
ApiMatches == [matchid : MatchIds, player : BOOLEAN]

\* convertMatchToGalleryFormat: null (NoEntry) without the player, else the
\* entry, whose matchId is metadata.matchid
NoEntry == 0
convertMatchToGalleryFormat(match) == IF match.player THEN match.matchid ELSE NoEntry

\* the sequences over MatchIds without a repeated id
NoRepeat(g) == \A i, j \in DOMAIN g : i # j => g[i] # g[j]

ImportInit ==
    /\ gallery \in {g \in UNION {[1..n -> MatchIds] : n \in 0..MaxMatchId} : NoRepeat(g)}
    /\ importResult = [imported |-> 0, skipped |-> 0]

\* lines 114-140 and 638-667 on the entries ms: the ids of the gallery are
\* collected once, every entry is tested against them, the new ones are put in
\* front of the gallery
Imported(ms) ==
    LET existingIds == {gallery[i] : i \in DOMAIN gallery}
        newMatches == SelectSeq(ms, LAMBDA m : m \notin existingIds)
    IN  [gallery |-> IF Len(newMatches) > 0 THEN newMatches \o gallery ELSE gallery,
         result |-> [imported |-> Len(newMatches),
                     skipped |-> Len(ms) - Len(newMatches)]]

\* importMatchHistory, given the matches getMatchHistory returned
importMatchHistory ==
    /\ \E matches \in Lists(ApiMatches) :
         LET converted == [i \in DOMAIN matches |->
                             convertMatchToGalleryFormat(matches[i])]
             r == Imported(SelectSeq(converted, LAMBDA c : c # NoEntry))
         IN  /\ gallery' = r.gallery
             /\ importResult' = r.result
    /\ UNCHANGED <<kvars, qvars, nvars, tvars, rvars, vvars, gvars, hvars, cvars, uvars>>

\* importFromStaticData, given the matches of the static file
importFromStaticData ==
    /\ \E matches \in Lists(MatchIds) :
         LET r == Imported(matches)
         IN  /\ gallery' = r.gallery
             /\ importResult' = r.result
    /\ UNCHANGED <<kvars, qvars, nvars, tvars, rvars, vvars, gvars, hvars, cvars, uvars>>
----------------------------------------------------------------------------
(* AuthService (src/auth-service.js).  A user object and a profile row are  *)
(* named by the id of their account: the profile of an account holds its    *)
(* username and Riot ID.  An async method runs to its next await in one     *)
(* step; Supabase answers each await at any later time.                     *)

MaxAuthCalls == 3

Accounts == {"user-1", "user-2"}
NoUser == ""
GuestUser == "guest"

\* the key saveUserData is called with
DataKey == "valorant_settings"

\* getCurrentUser without its writes: whose identity (id, email) and whose
\* username and Riot ID the returned object holds; NoUser twice for null
getCurrentUserValue ==
    IF isGuest
    THEN [id |-> currentUser, profile |-> currentUser]
    ELSE IF currentUser # NoUser /\ currentProfile # NoUser
    THEN [id |-> currentUser, profile |-> currentProfile]
    ELSE IF sessGuest
    THEN [id |-> GuestUser, profile |-> GuestUser]
    ELSE [id |-> NoUser, profile |-> NoUser]

\* isGuestUser
isGuestUser == isGuest

\* where saveUserData writes: nowhere, this.guestData, or the localStorage
\* entries of an account
SaveTarget ==
    IF currentUser = NoUser THEN "none"
    ELSE IF isGuest THEN "guestData" ELSE currentUser

\* after construction; a session of an earlier visit and the isGuest entry of
\* sessionStorage outlive a reload of the page
AuthInit ==
    /\ currentUser = NoUser
    /\ currentProfile = NoUser
    /\ isGuest = FALSE
    /\ guestData = {}
    /\ userData = {}
    /\ initialized = FALSE
    /\ session \in {NoUser} \cup Accounts
    /\ sessGuest \in BOOLEAN
    /\ authOps = {}
    /\ authCalls = 0
    /\ loginReturned = NoUser

NewCall == authCalls < MaxAuthCalls /\ authCalls' = authCalls + 1

AuthOp(op, await, acct) == [op |-> op, await |-> await, acct |-> acct, n |-> authCalls + 1]

\* init with window.supabaseClient available: to the await of getSession
init ==
    /\ NewCall
    /\ ~initialized
    /\ initialized' = TRUE
    /\ authOps' = authOps \cup {AuthOp("init", "getSession", NoUser)}
    /\ loginReturned' = NoUser
    /\ UNCHANGED <<currentUser, currentProfile, isGuest, guestData, userData, session,
                   sessGuest>>
    /\ UNCHANGED <<nvars, tvars, rvars, vvars, gvars, hvars, cvars, svars>>

\* checkSession after getSession answered: with a session the user is set and
\* loadProfile asks for the profile of this.currentUser.id
SessionResult ==
    /\ \E o \in authOps :
         /\ o.await = "getSession"
         /\ IF session # NoUser
            THEN /\ currentUser' = session
                 /\ authOps' = (authOps \ {o}) \cup {[o EXCEPT !.await = "profile",
                                                               !.acct = session]}
            ELSE /\ authOps' = authOps \ {o}
                 /\ UNCHANGED currentUser
    /\ loginReturned' = NoUser
    /\ UNCHANGED <<currentProfile, isGuest, guestData, userData, initialized, session,
                   sessGuest, authCalls>>
    /\ UNCHANGED <<nvars, tvars, rvars, vvars, gvars, hvars, cvars, svars>>

\* login to the await of signInWithPassword
login ==
    /\ NewCall
    /\ initialized
    /\ \E a \in Accounts : authOps' = authOps \cup {AuthOp("login", "signIn", a)}
    /\ loginReturned' = NoUser
    /\ UNCHANGED <<currentUser, currentProfile, isGuest, guestData, userData, initialized,
                   session, sessGuest>>
    /\ UNCHANGED <<nvars, tvars, rvars, vvars, gvars, hvars, cvars, svars>>

\* signInWithPassword answered: an error ends the call with success: false;
\* a user is stored and loadProfile asks for the profile of its id
SignInResult ==
    /\ \E o \in authOps :
         /\ o.await = "signIn"
         /\ \/ /\ authOps' = authOps \ {o}
               /\ UNCHANGED <<currentUser, session>>
            \/ /\ currentUser' = o.acct
               /\ session' = o.acct
               /\ authOps' = (authOps \ {o}) \cup {[o EXCEPT !.await = "profile"]}
    /\ loginReturned' = NoUser
    /\ UNCHANGED <<currentProfile, isGuest, guestData, userData, initialized, sessGuest,
                   authCalls>>
    /\ UNCHANGED <<nvars, tvars, rvars, vvars, gvars, hvars, cvars, svars>>

\* the profile query of loadProfile answered, with the row or with an error;
\* login then returns success with the user it signed in
ProfileResult ==
    /\ \E o \in authOps :
         /\ o.await = "profile"
         /\ authOps' = authOps \ {o}
         /\ \/ currentProfile' = o.acct
            \/ UNCHANGED currentProfile
         /\ loginReturned' = IF o.op = "login" THEN o.acct ELSE NoUser
    /\ UNCHANGED <<currentUser, isGuest, guestData, userData, initialized, session,
                   sessGuest, authCalls>>
    /\ UNCHANGED <<nvars, tvars, rvars, vvars, gvars, hvars, cvars, svars>>

\* register to the await of signUp
register ==
    /\ NewCall
    /\ initialized
    /\ \E a \in Accounts : authOps' = authOps \cup {AuthOp("register", "signUp", a)}
    /\ loginReturned' = NoUser
    /\ UNCHANGED <<currentUser, currentProfile, isGuest, guestData, userData, initialized,
                   session, sessGuest>>
    /\ UNCHANGED <<nvars, tvars, rvars, vvars, gvars, hvars, cvars, svars>>

\* signUp answered: an error, or a user whose mail must be confirmed, ends the
\* call; a user with a session goes on to the upsert of the profile
SignUpResult ==
    /\ \E o \in authOps :
         /\ o.await = "signUp"
         /\ \/ /\ authOps' = authOps \ {o}
               /\ UNCHANGED session
            \/ /\ session' = o.acct
               /\ authOps' = (authOps \ {o}) \cup {[o EXCEPT !.await = "upsert"]}
    /\ loginReturned' = NoUser
    /\ UNCHANGED <<currentUser, currentProfile, isGuest, guestData, userData, initialized,
                   sessGuest, authCalls>>
    /\ UNCHANGED <<nvars, tvars, rvars, vvars, gvars, hvars, cvars, svars>>

\* the upsert answered (its error is only logged): user and profile are set
UpsertResult ==
    /\ \E o \in authOps :
         /\ o.await = "upsert"
         /\ authOps' = authOps \ {o}
         /\ currentUser' = o.acct
         /\ currentProfile' = o.acct
    /\ loginReturned' = NoUser
    /\ UNCHANGED <<isGuest, guestData, userData, initialized, session, sessGuest,
                   authCalls>>
    /\ UNCHANGED <<nvars, tvars, rvars, vvars, gvars, hvars, cvars, svars>>

\* lines 209-214
LoggedOut ==
    /\ currentUser' = NoUser
    /\ currentProfile' = NoUser
    /\ isGuest' = FALSE
    /\ guestData' = {}
    /\ sessGuest' = FALSE

\* logout: to the await of signOut, or to its end without a client
logout ==
    /\ NewCall
    /\ IF initialized
       THEN /\ authOps' = authOps \cup {AuthOp("logout", "signOut", NoUser)}
            /\ UNCHANGED <<currentUser, currentProfile, isGuest, guestData, sessGuest>>
       ELSE /\ LoggedOut
            /\ UNCHANGED authOps
    /\ loginReturned' = NoUser
    /\ UNCHANGED <<userData, initialized, session>>
    /\ UNCHANGED <<nvars, tvars, rvars, vvars, gvars, hvars, cvars, svars>>

\* signOut answered
SignOutResult ==
    /\ \E o \in authOps :
         /\ o.await = "signOut"
         /\ authOps' = authOps \ {o}
    /\ session' = NoUser
    /\ LoggedOut
    /\ loginReturned' = NoUser
    /\ UNCHANGED <<userData, initialized, authCalls>>
    /\ UNCHANGED <<nvars, tvars, rvars, vvars, gvars, hvars, cvars, svars>>

loginAsGuest ==
    /\ NewCall
    /\ isGuest' = TRUE
    /\ currentUser' = GuestUser
    /\ guestData' = {}
    /\ sessGuest' = TRUE
    /\ loginReturned' = NoUser
    /\ UNCHANGED <<currentProfile, userData, initialized, session, authOps>>
    /\ UNCHANGED <<nvars, tvars, rvars, vvars, gvars, hvars, cvars, svars>>

\* getCurrentUser where it writes: not a guest, user or profile missing, and
\* sessionStorage says guest (lines 259-267); elsewhere it only returns
getCurrentUser ==
    /\ NewCall
    /\ ~isGuest
    /\ ~(currentUser # NoUser /\ currentProfile # NoUser)
    /\ sessGuest
    /\ isGuest' = TRUE
    /\ currentUser' = GuestUser
    /\ loginReturned' = NoUser
    /\ UNCHANGED <<currentProfile, guestData, userData, initialized, session, sessGuest,
                   authOps>>
    /\ UNCHANGED <<nvars, tvars, rvars, vvars, gvars, hvars, cvars, svars>>

\* saveUserData with a user set
saveUserData ==
    /\ NewCall
    /\ currentUser # NoUser
    /\ IF isGuest
       THEN /\ guestData' = guestData \cup {DataKey}
            /\ UNCHANGED userData
       ELSE /\ userData' = userData \cup {currentUser}
            /\ UNCHANGED guestData
    /\ loginReturned' = NoUser
    /\ UNCHANGED <<currentUser, currentProfile, isGuest, initialized, session, sessGuest,
                   authOps>>
    /\ UNCHANGED <<nvars, tvars, rvars, vvars, gvars, hvars, cvars, svars>>
----------------------------------------------------------------------------
(* Specifications                                                          *)

\* the parts of the state a specification does not exercise
NormIdle == text = <<>> /\ corrected = <<>> /\ npc = 0
TransIdle == result = [text |-> <<>>, hasSegments |-> FALSE, segments |-> <<>>]
             /\ tpc = "idle"
             /\ ret = <<>> /\ retLine = 0
ConfigIdle == /\ env1 = [GEMINI_API_KEY |-> Unset, OPENAI_API_KEY |-> Unset]
              /\ env2 = [GEMINI_API_KEY |-> Unset, OPENAI_API_KEY |-> Unset]
              /\ method = "" /\ res1 = NoResponse /\ res2 = NoResponse
\* the Valorant API client, not used
ValorantIdle ==
    /\ riotId = NoRiotId /\ cache = EmptyCache /\ inflight = {} /\ svcCalls = 0
    /\ lastReturn = NoReturn
    /\ RateInit
    /\ gallery = <<>> /\ importResult = [imported |-> 0, skipped |-> 0]
\* the account service, not used
AuthIdle ==
    /\ currentUser = NoUser /\ currentProfile = NoUser /\ isGuest = FALSE
    /\ guestData = {} /\ userData = {} /\ initialized = FALSE /\ session = NoUser
    /\ sessGuest = FALSE /\ authOps = {} /\ authCalls = 0 /\ loginReturned = NoUser
ServicesIdle == ValorantIdle /\ AuthIdle
\* the models beyond the voice input functions, at rest
ChatIdle == ApiInit /\ ChatInit /\ ConfigIdle /\ ServicesIdle
RecIdle == /\ isRecording = FALSE /\ mediaRecorder = 0 /\ stream = 0
           /\ audioChunks = 0 /\ live = {} /\ recState = <<>> /\ onstop = <<>>
           /\ stopQ = {} /\ calls = <<>> /\ uiRecording = FALSE

NormSpecInit == NormInit /\ TransIdle /\ RecIdle /\ VoiceInit /\ ChatIdle
NormNext == NormEnter \/ NormStep

\* correctStuttering applied to every bounded input and to the documented examples
SpecNorm == NormSpecInit /\ [][NormNext]_vars

TransSpecInit == TransInit /\ NormIdle /\ RecIdle /\ VoiceInit /\ ChatIdle
TransNext ==
    TransCall \/ TransResponse \/ TransNoSpeech \/ TransPhrase \/ TransDedup
      \/ TransText

\* transcribe applied to every bounded response
SpecTrans == TransSpecInit /\ [][TransNext]_vars

RecSpecInit == RecInit /\ NormIdle /\ TransIdle /\ VoiceInit /\ ChatIdle
RecNext ==
    \/ ClickStart
    \/ \E h \in 1..MaxClicks : Grant(h) \/ Deny(h)
    \/ ClickStop
    \/ \E r \in 1..MaxClicks : StopEvent(r) \/ DataAvailable(r)
    \/ Cancel

\* the microphone button clicked at any time, cancelRecording called at any time,
\* the browser answering in any order
SpecRec == RecSpecInit /\ [][RecNext]_vars

VoiceSpecInit == VoiceInit /\ NormIdle /\ TransIdle /\ RecIdle /\ ChatIdle
VoiceNext == VoiceClickStop \/ VoiceStopped \/ VoiceResponse \/ VoiceTimer

\* stop clicks on the microphone button, the recorder and the transcription API
\* answering in any way, the timers of the automatic send firing at any time
SpecVoice == VoiceSpecInit /\ [][VoiceNext]_vars

VoiceIdle == NormIdle /\ TransIdle /\ RecIdle /\ VoiceInit

ApiSpecInit == ApiInit /\ VoiceIdle /\ ChatInit /\ ConfigIdle /\ ServicesIdle
ApiNext == ApiCall \/ ApiResponse \/ ApiDelayDone

\* calls of makeAPIRequest, the server answering each fetch in any way
SpecApi == ApiSpecInit /\ [][ApiNext]_vars

ChatSpecInit == ChatInit /\ VoiceIdle /\ ApiInit /\ ConfigIdle /\ ServicesIdle
ChatNext ==
    \/ SendChatMessage
    \/ \E m \in 1..MaxChatCalls : ChatSettled(m)
    \/ ClearChatHistory

\* messages sent, answered or failed in any order, the history cleared at any time
SpecChat == ChatSpecInit /\ [][ChatNext]_vars

ConfigSpecInit == ConfigInit /\ VoiceIdle /\ ApiInit /\ ChatInit /\ ServicesIdle
ConfigNext == ConfigRequest

\* one request to /api/config in every pair of environments
SpecConfig == ConfigSpecInit /\ [][ConfigNext]_vars

CacheSpecInit ==
    /\ ValorantInit /\ RateInit
    /\ gallery = <<>> /\ importResult = [imported |-> 0, skipped |-> 0]
    /\ VoiceIdle /\ ApiInit /\ ChatInit /\ ConfigIdle /\ AuthIdle
CacheNext ==
    getAccountInfo \/ getMMR \/ getMatchHistory \/ SvcResponse \/ setRiotId
      \/ CacheExpire

\* the three cached calls made at any time, each answered at any later time,
\* the Riot ID set at any time, the time stamps of the cache running out
SpecCache == CacheSpecInit /\ [][CacheNext]_vars

RateSpecInit ==
    /\ RateInit
    /\ riotId = NoRiotId /\ cache = EmptyCache /\ inflight = {} /\ svcCalls = 0
    /\ lastReturn = NoReturn
    /\ gallery = <<>> /\ importResult = [imported |-> 0, skipped |-> 0]
    /\ VoiceIdle /\ ApiInit /\ ChatInit /\ ConfigIdle /\ AuthIdle
RateNext == makeRequest \/ getPlayerStats \/ DelayDone \/ FetchSettled \/ ClockTick

\* makeRequest called at any time, alone or three times at once, the timers
\* and the server answering at any later time
SpecRate == RateSpecInit /\ [][RateNext]_vars

ImportSpecInit ==
    /\ ImportInit
    /\ riotId = NoRiotId /\ cache = EmptyCache /\ inflight = {} /\ svcCalls = 0
    /\ lastReturn = NoReturn
    /\ RateInit
    /\ VoiceIdle /\ ApiInit /\ ChatInit /\ ConfigIdle /\ AuthIdle
ImportNext == importMatchHistory \/ importFromStaticData

\* the two imports in any order, each given any list of matches
SpecImport == ImportSpecInit /\ [][ImportNext]_vars

AuthSpecInit ==
    /\ AuthInit /\ ValorantIdle
    /\ VoiceIdle /\ ApiInit /\ ChatInit /\ ConfigIdle
AuthNext ==
    \/ init \/ SessionResult
    \/ login \/ SignInResult \/ ProfileResult
    \/ register \/ SignUpResult \/ UpsertResult
    \/ logout \/ SignOutResult
    \/ loginAsGuest \/ getCurrentUser \/ saveUserData

\* the methods of the account service called in any order, Supabase answering
\* each await at any later time and in any way
SpecAuth == AuthSpecInit /\ [][AuthNext]_vars
----------------------------------------------------------------------------
(* The rewrite rules as the documentation words them (spec.md 4.2), as     *)
(* predicates "the rule applies somewhere in s".  They are the yardstick   *)
(* of the properties below, not a model of the code.                       *)

\* rule 1: a substring of 2-10 characters immediately followed by itself
DocPhraseRepeat(s) ==
    \E i \in 1..Len(s), g \in 2..10 :
        i + 2 * g - 1 <= Len(s) /\ Sub(s, i, g) = Sub(s, i + g, g)

\* rules 2 and 4: a unit of lo..hi characters repeated across punctuation or space
DocSeparatedRepeat(s, lo, hi) ==
    \E i \in 1..Len(s), g \in lo..hi, m \in 1..Len(s) :
        /\ i + 2 * g + m - 1 <= Len(s)
        /\ \A k \in 0..(m - 1) : s[i + g + k] \in SepWide
        /\ Sub(s, i, g) = Sub(s, i + g + m, g)

\* rule 3: a kana 3+ times, or twice and followed by another kana
DocStutter(s) ==
    \E i \in 1..Len(s) :
        i + 2 <= Len(s) /\ s[i] \in Kana /\ s[i + 1] = s[i] /\ s[i + 2] \in Kana

\* rule 5: a kana, punctuation, then a kanji
DocFalseStart(s) ==
    \E i \in 1..Len(s), m \in 1..Len(s) :
        /\ i + m + 1 <= Len(s)
        /\ s[i] \in Kana
        /\ \A k \in 1..m : s[i + k] \in SepWide
        /\ s[i + m + 1] \in Kanji

\* rule 6: 2+ elongation marks, small tsu or ellipses in a row
DocLongSound(s) ==
    \E i \in 1..Len(s) :
        i + 1 <= Len(s) /\ s[i] \in {Ch.bar, Ch.xtu, Ch.ell} /\ s[i + 1] = s[i]

\* rule 7: a filler, punctuation or space, a filler
DocFillerRepeat(s) ==
    \E i \in 1..Len(s), a \in 1..Len(Fillers), b \in 1..Len(Fillers), m \in 1..Len(s) :
        /\ At(s, i, Fillers[a])
        /\ \A k \in 0..(m - 1) :
             i + Len(Fillers[a]) + k <= Len(s) /\ s[i + Len(Fillers[a]) + k] \in SepWide
        /\ At(s, i + Len(Fillers[a]) + m, Fillers[b])

\* rule 8: the string begins with a filler (optionally elongated) that is followed
\* by punctuation or space, or is the whole string
DocLeadingFiller(s) ==
    \E a \in 1..Len(Fillers), e \in 0..Len(s) :
        /\ At(s, 1, Fillers[a])
        /\ Len(Fillers[a]) + e <= Len(s)
        /\ \A k \in 1..e : s[Len(Fillers[a]) + k] \in {Ch.bar, Ch.xtu, Ch.to}
        /\ \/ Len(Fillers[a]) + e = Len(s)
           \/ s[Len(Fillers[a]) + e + 1] \in SepWide

\* rule 9: punctuation or space at either end, 2+ commas, 2+ spaces
DocUntidy(s) ==
    /\ s # <<>>
    /\ \/ s[1] \in SepWide
       \/ s[Len(s)] \in SepWide
       \/ \E i \in 1..(Len(s) - 1) :
            \/ s[i] \in SepComma /\ s[i + 1] \in SepComma
            \/ s[i] \in Space /\ s[i + 1] \in Space

\* some documented rule applies to s
DocRuleApplies(s) ==
    \/ DocPhraseRepeat(s)
    \/ DocSeparatedRepeat(s, 2, 10)
    \/ DocStutter(s)
    \/ DocSeparatedRepeat(s, 1, 3)
    \/ DocFalseStart(s)
    \/ DocLongSound(s)
    \/ DocFillerRepeat(s)
    \/ DocLeadingFiller(s)
    \/ DocUntidy(s)

\* s with every run of elongation marks cut to one mark
RECURSIVE DocCollapseBars(_)
DocCollapseBars(s) ==
    IF Len(s) < 2 THEN s
    ELSE IF s[1] = Ch.bar /\ s[2] = Ch.bar THEN DocCollapseBars(Tail(s))
    ELSE <<s[1]>> \o DocCollapseBars(Tail(s))

\* k copies of u
RECURSIVE Power(_, _)
Power(u, k) == IF k = 0 THEN <<>> ELSE u \o Power(u, k - 1)

Count(s, c) == Cardinality({i \in DOMAIN s : s[i] = c})


\* s is u, or u, then punctuation or space, then copies of u separated likewise
RECURSIVE DocSeparatedCopies(_, _)
DocSeparatedCopies(s, u) ==
    \/ s = u
    \/ /\ At(s, 1, u)
       /\ Run(s, Len(u) + 1, SepWide) >= 1
       /\ DocSeparatedCopies(
              SubSeq(s, Len(u) + Run(s, Len(u) + 1, SepWide) + 1, Len(s)), u)
----------------------------------------------------------------------------
(* Properties of correctStuttering                                         *)

\* C1: idempotence: the normalizer applied to its own output changes nothing.
C1_Idempotent ==
    NormReturned => correctStuttering(corrected) = corrected

\* C3: a filler token, then punctuation, then text free of disfluency: the
\* output is exactly that text; in particular the documented example.
C3_LeadingFillerStripped ==
    NormReturned =>
        /\ text = ExFiller => corrected = ExFillerOut
        /\ \A a \in 1..Len(Fillers), m \in 1..Len(text) :
             LET rest == SubSeq(text, Len(Fillers[a]) + m + 1, Len(text))
             IN  (/\ At(text, 1, Fillers[a])
                  /\ Len(Fillers[a]) + m < Len(text)
                  /\ \A k \in 1..m : text[Len(Fillers[a]) + k] \in Sep
                  /\ rest[1] \notin SepWide
                  /\ ~DocRuleApplies(rest))
                 => corrected = rest

\* C6: the normalizer returns a string for every input, and returns the input
\* unchanged when none of the documented rules applies to it.
C6_UnchangedWhenNoRuleApplies ==
    NormReturned => (~DocRuleApplies(text) => corrected = text)

\* C8: a run of 2+ elongation marks becomes one mark and the rest of the
\* string stays as it is; in particular the documented example.
C8_LongSoundOnly ==
    NormReturned =>
        /\ text = ExLong => corrected = ExLongOut
        /\ (DocLongSound(text) /\ ~DocRuleApplies(DocCollapseBars(text)))
              => corrected = DocCollapseBars(text)

\* C9: a run of n >= 3 copies of a kana c comes out as a single c, whatever
\* follows it: when c occurs nowhere else in the input, the output holds c once.
C9_StrongStutterCollapsed ==
    NormReturned =>
        /\ text = ExStutter => corrected = ExStutterOut
        /\ \A i \in 1..Len(text) :
             LET c == text[i]
                 n == Run(text, i, {c})
             IN  (c \in Kana /\ n >= 3 /\ Count(text, c) = n
                  /\ ~DocLeadingFiller(<<c>> \o SubSeq(text, i + n, Len(text))))
                 => Count(corrected, c) = 1

\* C10: k >= 2 adjacent copies of a unit u of 2-10 characters come out as one u
\* (u itself free of disfluency); in particular the documented example.
C10_PhraseRepeatCollapsed ==
    NormReturned =>
        /\ text = ExPhrase => corrected = ExPhraseOut
        /\ \A g \in 2..10, k \in 2..Len(text) :
             (/\ g * k = Len(text)
              /\ text = Power(SubSeq(text, 1, g), k)
              /\ ~DocRuleApplies(SubSeq(text, 1, g)))
             => corrected = SubSeq(text, 1, g)

\* C11: k >= 2 copies of a unit u of 2-10 characters, separated from each other
\* by punctuation or whitespace, come out as one u (u itself free of
\* disfluency and of separators); in particular the documented example.
C11_SeparatedRepeatCollapsed ==
    NormReturned =>
        /\ text = ExSeparated => corrected = ExSeparatedOut
        /\ \A g \in 2..10 :
             LET u == Sub(text, 1, g)
             IN  (/\ g < Len(text)
                  /\ \A k \in 1..g : u[k] \notin SepWide
                  /\ DocSeparatedCopies(text, u)
                  /\ ~DocRuleApplies(u))
                 => corrected = u

\* C12: every single replace step is idempotent: applied to its own output it
\* changes nothing, for the input of correctStuttering and for the string the
\* pipeline has reached.
C12_RuleIdempotent ==
    NormReturned =>
        \A r \in 1..NRules, s \in {text, corrected} :
            Replace(r, Replace(r, s)) = Replace(r, s)

\* C16: the output neither begins nor ends with punctuation or whitespace and
\* holds neither two commas in a row nor two whitespace characters in a row.
C16_TidyOutput ==
    NormReturned => ~DocUntidy(corrected)

\* C17: a hiragana that ends the preceding word (it follows a kanji or a kana)
\* and is followed by commas and a kanji is kept: when it occurs once in the
\* input (and the input does not begin with a filler), it occurs once in the
\* output; in particular the example keeps its particle.
C17_ParticleKept ==
    NormReturned =>
        /\ text = ExParticle => Count(corrected, Ch.ha) = 1
        /\ \A i \in 2..Len(text) :
             (/\ i + 2 <= Len(text)
              /\ text[i - 1] \in Kanji \cup Kana
              /\ text[i] \in Hiragana
              /\ text[i + 1] \in SepComma
              /\ text[i + 2] \in Kanji
              /\ Count(text, text[i]) = 1
              /\ ~DocLeadingFiller(text))
             => Count(corrected, text[i]) = 1

----------------------------------------------------------------------------
(* Properties of transcribe                                                *)

\* the sum of the no-speech probabilities (a missing one counts 0), in hundredths
DocSum(segs) ==
    LET part[i \in 0..Len(segs)] ==
            IF i = 0 THEN 0
            ELSE part[i - 1] + (IF segs[i].no_speech_prob = NoProb THEN 0
                                ELSE segs[i].no_speech_prob)
    IN  part[Len(segs)]

\* the mean no-speech probability is strictly greater than pct hundredths
DocMeanAbove(segs, pct) == DocSum(segs) > pct * Len(segs)

\* the full text contains a phrase of the denylist
DocDenylisted(t) ==
    \E p \in 1..Len(hallucinations), i \in 1..Len(t) :
        /\ i + Len(hallucinations[p]) - 1 <= Len(t)
        /\ SubSeq(t, i, i + Len(hallucinations[p]) - 1) = hallucinations[p]

\* the condition under which the filter is to suppress a result
DocSuppress(r) ==
    \/ DocMeanAbove(r.segments, 50)
    \/ DocDenylisted(r.text) /\ DocMeanAbove(r.segments, 30)

RECURSIVE DocDedupFrom(_, _, _, _)
DocDedupFrom(segs, i, hasLast, last) ==
    IF i > Len(segs) THEN <<>>
    ELSE LET t == Trim(segs[i].text)
         IN  IF hasLast /\ t = last THEN DocDedupFrom(segs, i + 1, hasLast, last)
             ELSE t \o DocDedupFrom(segs, i + 1, TRUE, t)
DocDedupConcat(segs) == DocDedupFrom(segs, 1, FALSE, <<>>)

\* C4: for a result that is not suppressed, transcribe returns the trimmed
\* segments, each one equal to the kept segment before it removed, put together
\* in order with no separator (the engine's text being the segments' texts).
C4_DedupConcat ==
    (/\ TransFiltered
     /\ HasSegments(result)
     /\ ~Suppressed
     /\ result.text = RawText(result.segments))
    => ret = DocDedupConcat(result.segments)

C13_DedupBeforeDenylist ==
    [][tpc = "phrase" => tpc' # "dedup"]_vars

----------------------------------------------------------------------------
(* Properties of the recording service                                     *)

\* C5: at any time at most one media stream is live and at most one recorder
\* records, whatever the order of the clicks, the calls and the browser's
\* answers.
C5_SingleCapture ==
    /\ Cardinality(live) <= 1
    /\ Cardinality(Recording) <= 1
----------------------------------------------------------------------------
(* Properties of the microphone button's stop branch                       *)

\* the handler of the latest stop click has run to its end
VoiceEnded == vpc = "idle" /\ sessions > 0

\* C14 as stated: correctStuttering is not invoked before or during the
\* transcription request, and a stop click that yielded a non-empty blob
\* invokes it exactly once, or not at all when the filter suppressed the result.
C14_OncePerRecording ==
    /\ vpc \in {"stopping", "transcribing"} => normCalls = 0
    /\ (VoiceEnded /\ blob > 0) => normCalls = (IF Suppressed THEN 0 ELSE 1)

\* C14, amended: correctStuttering is not invoked before or during the
\* transcription request; a stop click invokes it exactly once, with what
\* transcribe returned, when transcribe returned a non-empty string, and not at
\* all otherwise (no audio, a blob below the size check, a failed request, an
\* empty text, a result the filter suppressed).
C14_OncePerTranscript ==
    /\ vpc \in {"stopping", "transcribing"} => (normCalls = 0 /\ npc = 0)
    /\ VoiceEnded => normCalls = (IF tpc = "done" /\ ret # <<>> THEN 1 ELSE 0)
    /\ (VoiceEnded /\ Suppressed) => normCalls = 0
    /\ normCalls = 1 => (text = ret /\ npc = NRules + 1)

\* the second stop click: its recording was transcribed to a text and the
\* normalizer ran once on it
C14_Witness ==
    /\ VoiceEnded
    /\ blob >= MinBlobSize
    /\ tpc = "done"
    /\ ret = ExLong
    /\ normCalls = 1
    /\ corrected = correctStuttering(ExLong)
    /\ sessions = 2

\* C15: when transcribe returns a non-empty text that correctStuttering turns
\* into the empty string, the click writes nothing to the chat input, sets no
\* timer for the automatic send and reports that no speech was recognized.
C15_EmptyCleanedIsEmptyInput ==
    [][(/\ vpc = "transcribing"
        /\ tpc' = "done"
        /\ ret' # <<>>
        /\ correctStuttering(ret') = <<>>)
       => (/\ sendTimers' = sendTimers
           /\ inputValue' = inputValue
           /\ status' = "unrecognized")]_vars
----------------------------------------------------------------------------
(* Properties of the chat request, the chat history and /api/config         *)

\* 2000 * 2^(k-1), by doubling
DocBackoff(k) == IF k = 1 THEN 2000 ELSE IF k = 2 THEN 4000 ELSE IF k = 3 THEN 8000
                 ELSE IF k = 4 THEN 16000 ELSE 32000

\* C18: a call of makeAPIRequest sends a further request only after a 503;
\* before the k-th retry it waits 2000, 4000, 8000, 16000, 32000 ms; it sends
\* at most 6 requests; six answers of 503 end it with an error; any other
\* answer that is not ok ends it with an error at once.
C18_RetryProtocol ==
    /\ requests <= 6
    /\ apc = "wait" => requests = Len(waits)
    /\ apc \in {"fetch", "returned", "threw"} => requests = Len(waits) + 1
    /\ Len(waits) <= 5
    /\ \A k \in 1..Len(waits) : waits[k] = DocBackoff(k) /\ statuses[k] = 503
    /\ apc \in {"fetch", "wait"} => \A i \in 1..Len(statuses) : statuses[i] = 503
    /\ (Len(statuses) = 6 /\ statuses[6] = 503) => (apc = "threw" /\ apiError # "")
    /\ \A i \in 1..Len(statuses) :
         statuses[i] \notin (200..299) \cup {503}
            => (i = Len(statuses) /\ i = requests /\ apc = "threw" /\ apiError # "")

\* every attempt of a call was answered 503: five waits, six requests, an error
C18_Witness ==
    /\ apc = "threw"
    /\ requests = 6
    /\ waits = <<2000, 4000, 8000, 16000, 32000>>
    /\ statuses = <<503, 503, 503, 503, 503, 503>>
    /\ apiError = "unavailable"

\* the last n entries of h
DocLast(h, n) == IF Len(h) <= n THEN h ELSE [i \in 1..n |-> h[Len(h) - n + i]]

\* C19: chatHistory holds at most 20 entries, and they are the most recent
\* exchanges that succeeded since the last clear, oldest first; a call that
\* fails adds no exchange and so leaves it as it was.
C19_HistoryWindow ==
    /\ Len(chatHistory) <= 20
    /\ chatHistory = DocLast(exchangeLog, 20)

\* more than 20 exchanges succeeded since the last clear and the window moved
\* on; a call before them failed or was cleared away
C19_Witness ==
    /\ Len(exchangeLog) > 20
    /\ Len(chatHistory) = 20
    /\ chatHistory[1].user > 1
    /\ chatHistory[20] = exchangeLog[Len(exchangeLog)]
    /\ chatCalls > Len(exchangeLog) + Cardinality(pending)

\* both keys defined or not defined alike
SameSet(e1, e2) ==
    /\ e1.GEMINI_API_KEY.set = e2.GEMINI_API_KEY.set
    /\ e1.OPENAI_API_KEY.set = e2.OPENAI_API_KEY.set

\* both keys non-empty or not alike (not defined and empty are one case)
SameGiven(e1, e2) ==
    /\ (e1.GEMINI_API_KEY.set /\ e1.GEMINI_API_KEY.value # "")
         = (e2.GEMINI_API_KEY.set /\ e2.GEMINI_API_KEY.value # "")
    /\ (e1.OPENAI_API_KEY.set /\ e1.OPENAI_API_KEY.value # "")
         = (e2.OPENAI_API_KEY.set /\ e2.OPENAI_API_KEY.value # "")

\* C20 as stated: two environments whose keys are set or unset alike answer a
\* request alike, whatever the values of the keys.
C20_SetAlikeAnswerAlike ==
    (method # "" /\ SameSet(env1, env2)) => res1 = res2

\* C20, amended: two environments whose keys are non-empty or not (unset or
\* empty) alike answer a request alike, whatever the values of the keys, and
\* the body of the answer to a GET holds three booleans and one of the two
\* fixed messages.
C20_GivenAlikeAnswerAlike ==
    /\ (method # "" /\ SameGiven(env1, env2)) => res1 = res2
    /\ method = "GET" =>
         {res1.body, res2.body} \subseteq
            [configured : BOOLEAN, gemini : BOOLEAN, openai : BOOLEAN,
             message : {MsgAllSet, MsgSomeUnset}]

\* a GET in two environments with different keys got the same answer
C20_Witness ==
    /\ method = "GET"
    /\ env1.GEMINI_API_KEY.value = "key-1"
    /\ env2.GEMINI_API_KEY.value = "key-2"
    /\ env1.OPENAI_API_KEY.value = "key-2"
    /\ env2.OPENAI_API_KEY.value = "key-1"
    /\ res1 = res2
    /\ res1.body.configured
----------------------------------------------------------------------------
(* Claims about ValorantAPIService                                          *)

\* C21: a call of getAccountInfo, getMMR or getMatchHistory made under a Riot ID
\* returns data that was fetched for that Riot ID, also when a request for the
\* previous Riot ID was in flight when setRiotId cleared the cache.
C21_NoStaleRiotData ==
    (~lastReturn.threw /\ lastReturn.got # Null)
        => lastReturn.got.for.id = lastReturn.asked.id

\* C22: any two requests issued by makeRequest are at least minRequestInterval
\* apart.
C22_RequestSpacing ==
    \A i, j \in DOMAIN issued :
        i < j => issued[j] - issued[i] >= minRequestInterval

\* C23: from a gallery without a repeated match id, no sequence of imports makes
\* a gallery with two entries of the same match id.
C23_NoDuplicateMatch == NoRepeat(gallery)

\* C26: a match history served from the cache for (mode, size) is the data that
\* was fetched for that mode and size.
C26_CacheAnswersArguments ==
    (lastReturn.cached /\ lastReturn.asked.fn = "matches")
        => /\ lastReturn.got.for.mode = lastReturn.asked.mode
           /\ lastReturn.got.for.size = lastReturn.asked.size
----------------------------------------------------------------------------
(* Claims about AuthService                                                 *)

\* C24: when login() has returned success, isGuestUser() is false,
\* getCurrentUser() returns the account that logged in and saveUserData writes
\* to the storage of that account, whatever came before.
C24_LoginLeavesGuestMode ==
    loginReturned # NoUser
        => /\ ~isGuestUser
           /\ getCurrentUserValue.id = loginReturned
           /\ SaveTarget = loginReturned

\* C25: whenever currentProfile is not null it is the profile of currentUser.
C25_ProfileMatchesUser ==
    currentProfile # NoUser => currentProfile = currentUser

====
